---- MODULE Spec2Model ----
(***************************************************************************)
(* Request lifecycle coordination of the bug-report triage pipeline:       *)
(* CoordinatorAgent (submit, status consumer, timeout monitor, queries),   *)
(* the three stage agents (TriageAgent, TicketCreationAgent,               *)
(* GitHubAPIAgent), the StateManager records kept in Redis and the Kafka   *)
(* topics between them.                                                    *)
(*                                                                         *)
(* Time is kept as ages: every cache entry carries the time elapsed since  *)
(* its created_at and last_updated, every store record its remaining TTL.  *)
(* An age above the threshold it is compared with is kept at threshold+1,  *)
(* since the code only ever compares it with that threshold.               *)
(***************************************************************************)
EXTENDS Integers, Sequences, FiniteSets, TLC

\* ---------------------------------------------------------------- bounds
MaxReq == 3            \* request ids the model can hand out
PipelineReqs == 1      \* requests submitted in the pipeline specifications
CacheReqs == 2         \* requests submitted in the cache specifications
MaxFinal == 2          \* final success notifications the Coordinator publishes per request
MaxTicks == 2          \* clock steps followed over the life of a cache entry
MaxQueue == 1          \* messages of another producer waiting in the topics at one time
\* monitor threads start_monitoring creates over a run
MaxLoops == 3

\* ------------------------------------------------------ program constants
TIMEOUT_SECONDS == 300   \* Config.TIMEOUT_SECONDS: monitor threshold and Redis TTL
SweepSleep == 30         \* time.sleep(30) between monitor sweeps
ErrorSleep == 60         \* time.sleep(60) after a sweep that raised
GraceDelay == 30         \* threading.Timer(30.0, ...) after completion handling
CeilingSeconds == 3600   \* _cleanup_old_requests: entries older than 1 hour

Req == 1..MaxReq

\* Optional values: None is the empty set, a present value x is {x}.
None == {}
Some(x) == {x}

BUG_REPORTS_TOPIC == "bug-reports"
TRIAGE_TOPIC == "triage-results"
TICKET_CREATION_TOPIC == "ticket-creation"
STATUS_TOPIC == "status-updates"
Topics == {BUG_REPORTS_TOPIC, TRIAGE_TOPIC, TICKET_CREATION_TOPIC, STATUS_TOPIC}

\* TicketStatus
PENDING == "pending"
TRIAGED == "triaged"
IN_PROGRESS == "in_progress"
CREATED == "created"
FAILED == "failed"

BugIds == {"BUG-001"}
NoBugReport == "no-bug-report"      \* submit called with an object that has no id
IssueNumbers == {1000, 9999}        \* random.randint(1000, 9999)

VARIABLES
    nextId,           \* the next request id generate_request_id hands out
    sub,              \* per request id: position / result of the submit call that generated it
    active_requests,  \* CoordinatorAgent.active_requests
    timers,           \* per request id: remaining delay of the earliest eviction Timer
    store,            \* Redis: request:<id> -> RequestState with its remaining TTL
    topics,           \* Kafka: per topic and key, the messages not yet consumed
    sent,             \* every status event that reached the status topic
    finals,           \* per request id: final success notifications published so far
    kafka,            \* broker condition: "ok", "lossy" (delivery fails), "error" (produce raises)
    redis,            \* store condition: "ok", "error" (every command raises)
    stage,            \* the three stage consume loops: position and locals
    coord,            \* Coordinator status consumer loop
    mon,              \* timeout monitor thread
    lister,           \* a get_all_active_requests call in progress
    query,            \* the last get_request_status call and what it returned
    log,              \* the last error line of the consume loops: <<consumer, kind>>
    service           \* BugReportTriageService: running flag, start/stop position

vars == <<nextId, sub, active_requests, timers, store, topics, sent, finals, kafka, redis,
          stage, coord, mon, lister, query, log, service>>

\* variable groups an action leaves alone
envVars == <<kafka, redis>>
submitVars == <<nextId, sub>>
monVars == <<mon, lister, query>>
hostVars == <<log, service>>

Min(a, b) == IF a < b THEN a ELSE b
Max(a, b) == IF a > b THEN a ELSE b

\* ------------------------------------------------------------ data model
NoRecord == [exists |-> FALSE]
NoEntry == [exists |-> FALSE]

\* models.RequestState as create_request_state builds it
RequestState(r, bug, step) ==
    [exists |-> TRUE, request_id |-> r, bug_report_id |-> bug, status |-> PENDING,
     current_step |-> step, progress |-> <<>>, error_message |-> None,
     github_issue_number |-> None, github_issue_url |-> None,
     ttl |-> TIMEOUT_SECONDS]

\* html_url of the issue the sink created
IssueUrl(n) == <<"issues", n>>

NoMeta == [timeout |-> FALSE, github_issue_number |-> None, github_issue_url |-> None]
TimeoutMeta == [NoMeta EXCEPT !.timeout = TRUE]
IssueMeta(n) == [NoMeta EXCEPT !.github_issue_number = Some(n),
                               !.github_issue_url = Some(IssueUrl(n))]

\* the status_update dict of BaseAgent.send_status_update
StatusUpdate(r, status, agent, metadata) ==
    [request_id |-> r, status |-> status, agent |-> agent, metadata |-> metadata]

\* ------------------------------------------------------ messages on a topic
\* bytes that json.loads rejects
Undecodable == [raw |-> "not json"]
NoLine == <<"", "">>
Decodes(m) == "raw" \notin DOMAIN m

\* message.get("request_id") is falsy; message.get(field) is
LacksId(m) == "request_id" \notin DOMAIN m \/ m.request_id = 0
Lacks(m, field) == field \notin DOMAIN m

\* what another producer may leave on topic t under key k: bytes that are no JSON, an
\* object without request_id, an object without the payload
ForeignMessages(t, k) ==
    {Undecodable,
     [request_id |-> 0, bug_report |-> "BUG-001", triage_result |-> "triage",
      ticket_request |-> "BUG-001", status |-> "processing", agent |-> "other",
      metadata |-> NoMeta],
     [request_id |-> k]}

\* --------------------------------------------------------------- Kafka
\* KafkaProducerManager.send_message: produce + flush. The delivery callback only
\* logs, so an undelivered message still returns True; only an exception gives False.
SendReturns == kafka # "error"
Produce(tp, t, r, m) == IF kafka = "ok" THEN [tp EXCEPT ![t][r] = Append(@, m)] ELSE tp

\* BaseAgent.send_status_update: the result of send_message is dropped.
SendStatusUpdate(r, status, agent, metadata) ==
    /\ topics' = Produce(topics, STATUS_TOPIC, r, StatusUpdate(r, status, agent, metadata))
    /\ sent' = IF kafka = "ok" THEN sent \cup {StatusUpdate(r, status, agent, metadata)}
               ELSE sent

\* --------------------------------------------------------------- Redis
\* get_request_state: the stored record, None when absent or when redis raises
GetRequestState(r) == IF redis = "ok" THEN store[r] ELSE NoRecord

\* redis setex(key, TIMEOUT_SECONDS, json): the write resets the sliding TTL; a
\* raising redis leaves the key as it was
Setex(r, state) ==
    IF redis = "ok" THEN [store EXCEPT ![r] = [state EXCEPT !.ttl = TIMEOUT_SECONDS]]
    ELSE store

\* state.progress[step] = {...}: a new key is appended, an existing key keeps its place
PutProgress(progress, step) ==
    IF \E i \in 1..Len(progress) : progress[i] = step THEN progress
    ELSE Append(progress, step)

\* update_progress applied to the state that get_request_state returned
WithProgress(state, step) ==
    [state EXCEPT !.progress = PutProgress(@, step), !.current_step = step]

\* update_request_state(status=...) applied to the state read
WithStatus(state, status) == [state EXCEPT !.status = status]

\* update_request_state(status=IN_PROGRESS, current_step="creating_ticket")
WithInProgress(state) ==
    [state EXCEPT !.status = IN_PROGRESS, !.current_step = "creating_ticket"]

\* set_error: update_request_state(status=FAILED, error_message=...)
WithError(state, msg) == [state EXCEPT !.status = FAILED, !.error_message = Some(msg)]

\* mark_completed: update_request_state(status=CREATED, issue number, url, current_step)
WithCompleted(state, n) ==
    [state EXCEPT !.status = CREATED, !.github_issue_number = Some(n),
                  !.github_issue_url = Some(IssueUrl(n)), !.current_step = "completed"]

\* ------------------------------------------------------------ initial state
Stages == {"triage", "ticket", "github"}
AgentName(s) ==
    CASE s = "triage" -> "TriageAgent"
      [] s = "ticket" -> "TicketCreationAgent"
      [] s = "github" -> "GitHubAPIAgent"

\* persisted and out are history of the handling in progress: update_progress wrote its
\* entry; the output message reached the next topic
StageIdle == [pc |-> "poll", rid |-> 0, bug |-> "", snap |-> NoRecord, err |-> "", num |-> 0,
              persisted |-> FALSE, out |-> FALSE]
CoordIdle == [pc |-> "poll", msg |-> StatusUpdate(0, "", "", NoMeta)]
\* mon.stale and lister.begin are history: what the cache held when the sweep or the
\* enumeration began; mon.unsaved is history too: the ids of this sweep for which
\* set_error returned False. nap is the sleep the loop is in, or was in before the
\* sweep under way.
MonIdle == [pc |-> "sleep", di_used |-> 0, pos |-> 0, timeout_requests |-> <<>>,
            snap |-> NoRecord, stale |-> {}, unsaved |-> {}, nap |-> SweepSleep]
ListerIdle == [pc |-> "idle", di_used |-> 0, pos |-> 0, result |-> <<>>, raised |-> FALSE,
               begin |-> {}]
NoQuery == [pc |-> "idle", rid |-> 0, caller |-> "", cached |-> FALSE, record |-> NoRecord,
            view |-> NoRecord]
SubNew == [pc |-> "new", bug |-> "", success |-> FALSE]

\* the keys of self.consumers and self.agents, in insertion order
Components == <<"triage", "ticket_creation", "github_api", "coordinator">>
ComponentSet == {Components[i] : i \in 1..Len(Components)}

\* BugReportTriageService after __init__. thread is the coordinator's
\* timeout_monitor_thread: "none", "started", or "unstarted" when Thread.start() raised.
\* stopped, monitor_stopped, cleaned and raised are history of stop_service: the
\* components whose stop or cleanup was called, and those whose call raised. polling
\* holds the stage consumers whose group has got its assignment. flag is each
\* KafkaConsumerManager's running, loop the position of its start_consuming thread,
\* closed the consumers stop_consuming has closed. monitoring is the coordinator's
\* flag and loops the position of each _monitor_timeouts thread made so far.
ServiceNew == [running |-> FALSE, pc |-> "new", thread |-> "none", stopped |-> {},
               monitor_stopped |-> FALSE, cleaned |-> {}, raised |-> {}, polling |-> {},
               flag |-> [c \in ComponentSet |-> FALSE],
               loop |-> [c \in ComponentSet |-> "none"], closed |-> {},
               monitoring |-> FALSE, loops |-> [i \in 1..MaxLoops |-> "none"]]

Init ==
    /\ nextId = 1
    /\ sub = [r \in Req |-> SubNew]
    /\ active_requests = [r \in Req |-> NoEntry]
    /\ timers = [r \in Req |-> None]
    /\ store = [r \in Req |-> NoRecord]
    /\ topics = [t \in Topics |-> [r \in Req |-> <<>>]]
    /\ sent = {}
    /\ finals = [r \in Req |-> 0]
    /\ kafka = "ok"
    /\ redis = "ok"
    /\ stage = [s \in Stages |-> StageIdle]
    /\ coord = CoordIdle
    /\ mon = MonIdle
    /\ lister = ListerIdle
    /\ query = NoQuery
    /\ log = NoLine
    /\ service = ServiceNew

\* ------------------------------------------------- CoordinatorAgent.submit
\* submit_bug_report lines 47-56: a fresh id, then the cache entry. An object without
\* an id raises before the entry is stored and the call returns None.
SubmitBegin(r, bug) ==
    /\ r = nextId
    /\ sub[r].pc \in {"new", "checked"}
    /\ nextId' = nextId + 1
    /\ IF bug = NoBugReport
       THEN /\ sub' = [sub EXCEPT ![r] = [SubNew EXCEPT !.pc = "raised", !.bug = bug]]
            /\ UNCHANGED active_requests
       ELSE /\ sub' = [sub EXCEPT ![r] = [SubNew EXCEPT !.pc = "sending", !.bug = bug]]
            /\ active_requests' = [active_requests EXCEPT ![r] =
                   [exists |-> TRUE, bug_report_id |-> bug, status |-> "submitted",
                    age_created |-> 0, age_updated |-> 0, last_agent |-> "None"]]
    /\ UNCHANGED <<timers, store, topics, sent, finals, envVars, stage, coord, monVars,
                   hostVars>>

\* submit_bug_report with the result of send_message disregarded: the id is returned
\* whatever the relay answered
SubmitSendDisregarded(r) ==
    /\ sub[r].pc = "sending"
    /\ topics' = Produce(topics, BUG_REPORTS_TOPIC, r,
                         [request_id |-> r, bug_report |-> sub[r].bug])
    /\ sub' = [sub EXCEPT ![r].success = SendReturns, ![r].pc = "notify"]
    /\ UNCHANGED <<nextId, active_requests, timers, store, sent, finals, envVars, stage,
                   coord, monVars,
                   hostVars>>

\* lines 58-68 and 78-80: the initial message; a false result returns None
SubmitSend(r) ==
    /\ sub[r].pc = "sending"
    /\ topics' = Produce(topics, BUG_REPORTS_TOPIC, r,
                         [request_id |-> r, bug_report |-> sub[r].bug])
    /\ sub' = [sub EXCEPT ![r].success = SendReturns,
                          ![r].pc = IF SendReturns THEN "notify" ELSE "rejected"]
    /\ UNCHANGED <<nextId, active_requests, timers, store, sent, finals, envVars, stage,
                   coord, monVars,
                   hostVars>>

\* lines 70-77: the 'submitted' status event, then the id is returned
SubmitNotify(r) ==
    /\ sub[r].pc = "notify"
    /\ SendStatusUpdate(r, "submitted", "CoordinatorAgent", NoMeta)
    /\ sub' = [sub EXCEPT ![r].pc = "returned"]
    /\ UNCHANGED <<nextId, active_requests, timers, store, finals, envVars, stage,
                   coord, monVars,
                   hostVars>>

\* ------------------------------------------------------------ stage helpers
\* a stage's locals with its position moved
At(s, pc) == [stage EXCEPT ![s].pc = pc, ![s].snap = NoRecord]
Handling(s, pc) == stage[s].pc = pc
Idle(s) == [stage EXCEPT ![s] = StageIdle]

\* the topic stage s consumes, and the fields its handler wants besides request_id
InTopic(s) ==
    CASE s = "triage" -> BUG_REPORTS_TOPIC
      [] s = "ticket" -> TRIAGE_TOPIC
      [] s = "github" -> TICKET_CREATION_TOPIC
Required(s) ==
    CASE s = "triage" -> {"bug_report"}
      [] s = "ticket" -> {"bug_report", "triage_result"}
      [] s = "github" -> {"ticket_request"}

\* the locals of stage s when it starts on the valid message for request r
Taken(s, r, bug, pc) ==
    [StageIdle EXCEPT !.rid = r, !.bug = bug, !.pc = pc]

\* the validation with the test of request_id left out
DiscardedIdUnchecked(m, fields) ==
    IF ~Decodes(m) THEN "undecodable"
    ELSE IF \E f \in fields : Lacks(m, f) THEN "invalid"
    ELSE "no"

\* a consume loop that ends on the message it cannot handle
DiscardEndsLoop(s, kind) ==
    /\ log' = <<s, kind>>
    /\ stage' = [stage EXCEPT ![s].pc = "ended"]

\* kafka_utils.py 116-125 and the validation at the head of each process_message: a
\* message json.loads rejects raises inside the loop's try and is logged there; a
\* message without a required field is logged by the handler, which returns. Either
\* way the loop polls again.
Discarded(m, fields) ==
    IF ~Decodes(m) THEN "undecodable"
    ELSE IF LacksId(m) \/ \E f \in fields : Lacks(m, f) THEN "invalid"
    ELSE "no"

Discard(s, kind) ==
    /\ log' = <<s, kind>>
    /\ stage' = Idle(s)

\* an update that starts from a fresh record when it finds none
StageReadCreates(s, write, after) ==
    LET state == GetRequestState(stage[s].rid) IN
    [stage EXCEPT ![s].pc = write,
                  ![s].snap = IF state.exists THEN [state EXCEPT !.ttl = TIMEOUT_SECONDS]
                              ELSE RequestState(stage[s].rid, stage[s].bug, "")]

\* the first half of a store update made by stage s: get_request_state. A missing
\* record makes the update return False, which no stage looks at, so the stage goes
\* on at `after`; otherwise the state read is kept for the write at `write`.
StageRead(s, write, after) ==
    LET state == GetRequestState(stage[s].rid) IN
    IF state.exists
    THEN [stage EXCEPT ![s].pc = write, ![s].snap = [state EXCEPT !.ttl = TIMEOUT_SECONDS]]
    ELSE [stage EXCEPT ![s].pc = after]

\* a stage entering BaseAgent.handle_error with this message
StageFails(s, msg) == [stage EXCEPT ![s].pc = "error_get", ![s].err = msg]

\* ------------------------------------------------ BaseAgent.handle_error
\* handle_error line 96, set_error: the read of update_request_state
HandleErrorGet(s) ==
    /\ Handling(s, "error_get")
    /\ stage' = StageRead(s, "error_set", "error_status")
    /\ UNCHANGED <<submitVars, active_requests, timers, store, topics, sent, finals,
                   envVars, coord, monVars,
                   hostVars>>

\* a write that puts the record back as it was read
HandleErrorSetUnmarked(s) ==
    /\ Handling(s, "error_set")
    /\ store' = Setex(stage[s].rid, stage[s].snap)
    /\ stage' = At(s, "error_status")
    /\ UNCHANGED <<submitVars, active_requests, timers, topics, sent, finals, envVars,
                   coord, monVars,
                   hostVars>>

\* set_error: the write of update_request_state(status=FAILED, error_message)
HandleErrorSet(s) ==
    /\ Handling(s, "error_set")
    /\ store' = Setex(stage[s].rid,
                      WithError(stage[s].snap, AgentName(s) \o ": " \o stage[s].err))
    /\ stage' = At(s, "error_status")
    /\ UNCHANGED <<submitVars, active_requests, timers, topics, sent, finals, envVars,
                   coord, monVars,
                   hostVars>>

\* handle_error line 99: the 'failed' status event; the handler returns
HandleErrorStatus(s) ==
    /\ Handling(s, "error_status")
    /\ SendStatusUpdate(stage[s].rid, "failed", AgentName(s), NoMeta)
    /\ stage' = Idle(s)
    /\ UNCHANGED <<submitVars, active_requests, timers, store, finals, envVars, coord,
                   monVars,
                   hostVars>>

\* ------------------------------------------- TriageAgent.process_message
\* lines 54-71: the next bug-report message, then create_request_state; a raising
\* store lands in the except branch, which calls handle_error
TriageRecv(k) ==
    /\ Handling("triage", "poll")
    /\ topics[BUG_REPORTS_TOPIC][k] # <<>>
    /\ LET m == Head(topics[BUG_REPORTS_TOPIC][k])
           kind == Discarded(m, Required("triage"))
       IN
       /\ topics' = [topics EXCEPT ![BUG_REPORTS_TOPIC][k] = Tail(@)]
       /\ IF kind # "no"
          THEN /\ Discard("triage", kind)
               /\ UNCHANGED store
          ELSE /\ store' = Setex(m.request_id,
                                 RequestState(m.request_id, m.bug_report, "triage"))
               /\ stage' = [stage EXCEPT !["triage"] =
                      [Taken("triage", m.request_id, m.bug_report,
                             IF redis = "ok" THEN "start" ELSE "error_get")
                         EXCEPT !.err = IF redis = "ok" THEN ""
                                        ELSE "Error processing bug report"]]
               /\ UNCHANGED log
    /\ UNCHANGED <<submitVars, active_requests, timers, sent, finals, envVars, coord,
                   monVars, service>>

\* line 73: log_processing_start
TriageStart ==
    /\ Handling("triage", "start")
    /\ SendStatusUpdate(stage["triage"].rid, "processing", "TriageAgent", NoMeta)
    /\ stage' = At("triage", "analyze")
    /\ UNCHANGED <<submitVars, active_requests, timers, store, finals, envVars, coord,
                   monVars,
                   hostVars>>

\* lines 76-88 and 110-111: the classifier capability; with a result, the read of
\* update_progress; without one, handle_error
TriageAnalyze(ok) ==
    /\ Handling("triage", "analyze")
    /\ stage' = IF ok THEN StageRead("triage", "progress_set", "publish")
                ELSE StageFails("triage", "Failed to analyze bug report")
    /\ UNCHANGED <<submitVars, active_requests, timers, store, topics, sent, finals,
                   envVars, coord, monVars,
                   hostVars>>

\* update_progress(request_id, "triage_completed", ...): the write
TriageProgressSet ==
    /\ Handling("triage", "progress_set")
    /\ store' = Setex(stage["triage"].rid,
                      WithProgress(stage["triage"].snap, "triage_completed"))
    /\ stage' = [At("triage", "publish") EXCEPT !["triage"].persisted = (redis = "ok")]
    /\ UNCHANGED <<submitVars, active_requests, timers, topics, sent, finals, envVars,
                   coord, monVars,
                   hostVars>>

\* a classifier that hands its result to the sink's topic
TriagePublishAhead ==
    /\ Handling("triage", "publish")
    /\ topics' = Produce(topics, TICKET_CREATION_TOPIC, stage["triage"].rid,
                         [request_id |-> stage["triage"].rid,
                          ticket_request |-> stage["triage"].bug])
    /\ stage' = IF SendReturns
                THEN [At("triage", "complete") EXCEPT !["triage"].out = (kafka = "ok")]
                ELSE StageFails("triage", "Failed to send triage result to Kafka")
    /\ UNCHANGED <<submitVars, active_requests, timers, store, sent, finals, envVars,
                   coord, monVars,
                   hostVars>>

\* lines 90-109: the triage result goes to the triage topic; a false result is an error
TriagePublish ==
    /\ Handling("triage", "publish")
    /\ topics' = Produce(topics, TRIAGE_TOPIC, stage["triage"].rid,
                         [request_id |-> stage["triage"].rid,
                          bug_report |-> stage["triage"].bug, triage_result |-> "triage"])
    /\ stage' = IF SendReturns
                THEN [At("triage", "complete") EXCEPT !["triage"].out = (kafka = "ok")]
                ELSE StageFails("triage", "Failed to send triage result to Kafka")
    /\ UNCHANGED <<submitVars, active_requests, timers, store, sent, finals, envVars,
                   coord, monVars,
                   hostVars>>

\* line 102: log_processing_complete
TriageComplete ==
    /\ Handling("triage", "complete")
    /\ SendStatusUpdate(stage["triage"].rid, "completed", "TriageAgent", NoMeta)
    /\ stage' = At("triage", "triaged_get")
    /\ UNCHANGED <<submitVars, active_requests, timers, store, finals, envVars, coord,
                   monVars,
                   hostVars>>

\* lines 103-105, update_request_state(status=TRIAGED): the read
TriageTriagedGet ==
    /\ Handling("triage", "triaged_get")
    /\ stage' = LET next == StageRead("triage", "triaged_set", "poll") IN
                IF next["triage"].pc = "poll" THEN Idle("triage") ELSE next
    /\ UNCHANGED <<submitVars, active_requests, timers, store, topics, sent, finals,
                   envVars, coord, monVars,
                   hostVars>>

\* update_request_state(status=TRIAGED): the write; the handler returns
TriageTriagedSet ==
    /\ Handling("triage", "triaged_set")
    /\ store' = Setex(stage["triage"].rid, WithStatus(stage["triage"].snap, TRIAGED))
    /\ stage' = Idle("triage")
    /\ UNCHANGED <<submitVars, active_requests, timers, topics, sent, finals, envVars,
                   coord, monVars,
                   hostVars>>

\* ----------------------------------- TicketCreationAgent.process_message
\* lines 65-81: the next triage result, then log_processing_start
TicketRecv(k) ==
    /\ Handling("ticket", "poll")
    /\ topics[TRIAGE_TOPIC][k] # <<>>
    /\ LET m == Head(topics[TRIAGE_TOPIC][k])
           kind == Discarded(m, Required("ticket"))
           taken == [topics EXCEPT ![TRIAGE_TOPIC][k] = Tail(@)]
       IN
       IF kind # "no"
       THEN /\ Discard("ticket", kind)
            /\ topics' = taken
            /\ UNCHANGED sent
       ELSE LET event == StatusUpdate(m.request_id, "processing", "TicketCreationAgent",
                                      NoMeta)
            IN
            /\ topics' = Produce(taken, STATUS_TOPIC, m.request_id, event)
            /\ sent' = IF kafka = "ok" THEN sent \cup {event} ELSE sent
            /\ stage' = [stage EXCEPT !["ticket"] =
                            Taken("ticket", m.request_id, m.bug_report, "create")]
            /\ UNCHANGED log
    /\ UNCHANGED <<submitVars, active_requests, timers, store, finals, envVars, coord,
                   monVars, service>>

\* lines 84-104 and 127-128: the formatter capability; with an issue, the read of
\* update_progress; without one, handle_error
TicketCreate(ok) ==
    /\ Handling("ticket", "create")
    /\ stage' = IF ok THEN StageRead("ticket", "progress_set", "publish")
                ELSE StageFails("ticket", "Failed to create GitHub issue")
    /\ UNCHANGED <<submitVars, active_requests, timers, store, topics, sent, finals,
                   envVars, coord, monVars,
                   hostVars>>

\* update_progress(request_id, "github_issue_created", ...): the write
TicketProgressSet ==
    /\ Handling("ticket", "progress_set")
    /\ store' = Setex(stage["ticket"].rid,
                      WithProgress(stage["ticket"].snap, "github_issue_created"))
    /\ stage' = [At("ticket", "publish") EXCEPT !["ticket"].persisted = (redis = "ok")]
    /\ UNCHANGED <<submitVars, active_requests, timers, topics, sent, finals, envVars,
                   coord, monVars,
                   hostVars>>

\* lines 106-126: the ticket request goes to the ticket topic
TicketPublish ==
    /\ Handling("ticket", "publish")
    /\ topics' = Produce(topics, TICKET_CREATION_TOPIC, stage["ticket"].rid,
                         [request_id |-> stage["ticket"].rid,
                          ticket_request |-> stage["ticket"].bug])
    /\ stage' = IF SendReturns
                THEN [At("ticket", "complete") EXCEPT !["ticket"].out = (kafka = "ok")]
                ELSE StageFails("ticket", "Failed to send ticket creation request to Kafka")
    /\ UNCHANGED <<submitVars, active_requests, timers, store, sent, finals, envVars,
                   coord, monVars,
                   hostVars>>

\* line 119: log_processing_complete
TicketComplete ==
    /\ Handling("ticket", "complete")
    /\ SendStatusUpdate(stage["ticket"].rid, "completed", "TicketCreationAgent", NoMeta)
    /\ stage' = At("ticket", "in_progress_get")
    /\ UNCHANGED <<submitVars, active_requests, timers, store, finals, envVars, coord,
                   monVars,
                   hostVars>>

\* lines 120-124, update_request_state(status=IN_PROGRESS, ...): the read
TicketInProgressGet ==
    /\ Handling("ticket", "in_progress_get")
    /\ stage' = LET next == StageRead("ticket", "in_progress_set", "poll") IN
                IF next["ticket"].pc = "poll" THEN Idle("ticket") ELSE next
    /\ UNCHANGED <<submitVars, active_requests, timers, store, topics, sent, finals,
                   envVars, coord, monVars,
                   hostVars>>

\* update_request_state(status=IN_PROGRESS, ...): the write; the handler returns
TicketInProgressSet ==
    /\ Handling("ticket", "in_progress_set")
    /\ store' = Setex(stage["ticket"].rid, WithInProgress(stage["ticket"].snap))
    /\ stage' = Idle("ticket")
    /\ UNCHANGED <<submitVars, active_requests, timers, topics, sent, finals, envVars,
                   coord, monVars,
                   hostVars>>

\* ---------------------------------------- GitHubAPIAgent.process_message
\* lines 28-46: the next ticket request, then log_processing_start
GitHubRecv(k) ==
    /\ Handling("github", "poll")
    /\ topics[TICKET_CREATION_TOPIC][k] # <<>>
    /\ LET m == Head(topics[TICKET_CREATION_TOPIC][k])
           kind == Discarded(m, Required("github"))
           taken == [topics EXCEPT ![TICKET_CREATION_TOPIC][k] = Tail(@)]
       IN
       IF kind # "no"
       THEN /\ Discard("github", kind)
            /\ topics' = taken
            /\ UNCHANGED sent
       ELSE LET event == StatusUpdate(m.request_id, "processing", "GitHubAPIAgent", NoMeta)
            IN
            /\ topics' = Produce(taken, STATUS_TOPIC, m.request_id, event)
            /\ sent' = IF kafka = "ok" THEN sent \cup {event} ELSE sent
            /\ stage' = [stage EXCEPT !["github"] =
                            Taken("github", m.request_id, m.ticket_request, "api")]
            /\ UNCHANGED log
    /\ UNCHANGED <<submitVars, active_requests, timers, store, finals, envVars, coord,
                   monVars, service>>

\* lines 49-57 and 74-75: the sink capability; with a response, the read of
\* mark_completed; without one, handle_error
GitHubApi(ok, n) ==
    /\ Handling("github", "api")
    /\ stage' = IF ok
                THEN [StageRead("github", "completed_set", "complete")
                        EXCEPT !["github"].num = n]
                ELSE StageFails("github", "Failed to create GitHub issue via API")
    /\ UNCHANGED <<submitVars, active_requests, timers, store, topics, sent, finals,
                   envVars, coord, monVars,
                   hostVars>>

\* mark_completed: the write of update_request_state(status=CREATED, number, url, step)
GitHubCompletedSet ==
    /\ Handling("github", "completed_set")
    /\ store' = Setex(stage["github"].rid,
                      WithCompleted(stage["github"].snap, stage["github"].num))
    /\ stage' = At("github", "complete")
    /\ UNCHANGED <<submitVars, active_requests, timers, topics, sent, finals, envVars,
                   coord, monVars,
                   hostVars>>

\* lines 59-61: log_processing_complete
GitHubComplete ==
    /\ Handling("github", "complete")
    /\ SendStatusUpdate(stage["github"].rid, "completed", "GitHubAPIAgent", NoMeta)
    /\ stage' = At("github", "final")
    /\ UNCHANGED <<submitVars, active_requests, timers, store, finals, envVars, coord,
                   monVars,
                   hostVars>>

\* lines 64-73: the final 'completed' event with the issue number and url
GitHubFinal ==
    /\ Handling("github", "final")
    /\ SendStatusUpdate(stage["github"].rid, "completed", "GitHubAPIAgent",
                        IssueMeta(stage["github"].num))
    /\ stage' = Idle("github")
    /\ UNCHANGED <<submitVars, active_requests, timers, store, finals, envVars, coord,
                   monVars,
                   hostVars>>

\* ------------------------------------- CoordinatorAgent: status consumer
\* process_message / _process_status_update lines 86-116: the cache entry, when there
\* is one, takes the event's status and agent and a fresh last_updated
CoordRecv(k) ==
    /\ coord.pc = "poll"
    /\ topics[STATUS_TOPIC][k] # <<>>
    /\ LET m == Head(topics[STATUS_TOPIC][k])
           status == IF Lacks(m, "status") THEN "None" ELSE m.status
           agent == IF Lacks(m, "agent") THEN "None" ELSE m.agent
       IN
       /\ topics' = [topics EXCEPT ![STATUS_TOPIC][k] = Tail(@)]
       /\ IF ~Decodes(m)
          THEN /\ log' = <<"coordinator", "undecodable">>
               /\ UNCHANGED <<active_requests, coord>>
          ELSE IF LacksId(m)
          THEN UNCHANGED <<active_requests, coord, log>>
          ELSE /\ active_requests' =
                      IF active_requests[m.request_id].exists
                      THEN [active_requests EXCEPT ![m.request_id].status = status,
                                                   ![m.request_id].age_updated = 0,
                                                   ![m.request_id].last_agent = agent]
                      ELSE active_requests
               /\ coord' = IF status \in {"completed", "failed"}
                           THEN [pc |-> "completion", msg |-> m]
                           ELSE CoordIdle
               /\ UNCHANGED log
    /\ UNCHANGED <<submitVars, timers, store, sent, finals, envVars, stage, monVars,
                   service>>

\* _process_status_update lines 96-104 on its own: the next status event is taken and
\* `request_id in self.active_requests` is tested. A present entry is updated by a
\* later step (CoordUpdate), so that an eviction may come between test and update.
CoordTest(k) ==
    /\ coord.pc = "poll"
    /\ topics[STATUS_TOPIC][k] # <<>>
    /\ LET m == Head(topics[STATUS_TOPIC][k])
           status == IF Lacks(m, "status") THEN "None" ELSE m.status
       IN
       /\ topics' = [topics EXCEPT ![STATUS_TOPIC][k] = Tail(@)]
       /\ IF ~Decodes(m)
          THEN /\ log' = <<"coordinator", "undecodable">>
               /\ UNCHANGED coord
          ELSE IF LacksId(m)
          THEN UNCHANGED <<coord, log>>
          ELSE /\ coord' = IF active_requests[m.request_id].exists
                           THEN [pc |-> "update", msg |-> m]
                           ELSE IF status \in {"completed", "failed"}
                           THEN [pc |-> "completion", msg |-> m]
                           ELSE CoordIdle
               /\ UNCHANGED log
    /\ UNCHANGED <<submitVars, active_requests, timers, store, sent, finals, envVars,
                   stage, monVars, service>>

\* an update that stores a fresh dict under the key when the entry is gone
CoordUpdateReinserts ==
    /\ coord.pc = "update"
    /\ LET m == coord.msg
           status == IF Lacks(m, "status") THEN "None" ELSE m.status
           agent == IF Lacks(m, "agent") THEN "None" ELSE m.agent
       IN
       /\ active_requests' =
              IF active_requests[m.request_id].exists
              THEN [active_requests EXCEPT ![m.request_id].status = status,
                                           ![m.request_id].age_updated = 0,
                                           ![m.request_id].last_agent = agent]
              ELSE [active_requests EXCEPT ![m.request_id] =
                       [exists |-> TRUE, bug_report_id |-> "", status |-> status,
                        age_created |-> 0, age_updated |-> 0, last_agent |-> agent]]
       /\ coord' = IF status \in {"completed", "failed"}
                   THEN [pc |-> "completion", msg |-> m]
                   ELSE CoordIdle
    /\ UNCHANGED <<submitVars, timers, store, topics, sent, finals, envVars, stage,
                   monVars, hostVars>>

\* lines 104-113: self.active_requests[request_id].update({...}). The subscript raises
\* KeyError when the entry was popped since the test: the except at 118 logs it and
\* the handler returns without completion handling. Otherwise the entry's own dict is
\* updated in place (an entry popped after the subscript is updated as an orphan and
\* stays out of the cache, which is the update followed by the pop).
CoordUpdate ==
    /\ coord.pc = "update"
    /\ LET m == coord.msg
           status == IF Lacks(m, "status") THEN "None" ELSE m.status
           agent == IF Lacks(m, "agent") THEN "None" ELSE m.agent
       IN
       IF ~active_requests[m.request_id].exists
       THEN /\ log' = <<"coordinator", "KeyError">>
            /\ coord' = CoordIdle
            /\ UNCHANGED active_requests
       ELSE /\ active_requests' =
                   [active_requests EXCEPT ![m.request_id].status = status,
                                           ![m.request_id].age_updated = 0,
                                           ![m.request_id].last_agent = agent]
            /\ coord' = IF status \in {"completed", "failed"}
                        THEN [pc |-> "completion", msg |-> m]
                        ELSE CoordIdle
            /\ UNCHANGED log
    /\ UNCHANGED <<submitVars, timers, store, topics, sent, finals, envVars, stage,
                   monVars, service>>

\* completion handling that does not look for the cache entry
CoordCompletionUnchecked ==
    /\ coord.pc = "completion"
    /\ LET r == coord.msg.request_id
           notify == coord.msg.status = "completed"
       IN
       /\ notify => finals[r] < MaxFinal
       /\ IF notify
          THEN /\ SendStatusUpdate(r, "completed", "CoordinatorAgent",
                      [NoMeta EXCEPT
                          !.github_issue_number = coord.msg.metadata.github_issue_number,
                          !.github_issue_url = coord.msg.metadata.github_issue_url])
               /\ finals' = [finals EXCEPT ![r] = @ + 1]
          ELSE UNCHANGED <<topics, sent, finals>>
       /\ timers' = IF timers[r] = None
                    THEN [timers EXCEPT ![r] = Some(GraceDelay)]
                    ELSE timers
    /\ coord' = CoordIdle
    /\ UNCHANGED <<submitVars, active_requests, store, envVars, stage, monVars,
                   hostVars>>

\* _handle_request_completion lines 121-157: for a cached request, the final success
\* notification (on 'completed') and the Timer that pops the entry after the delay.
\* Only the earliest Timer of a request matters: an entry popped is never put back.
CoordCompletion ==
    /\ coord.pc = "completion"
    /\ LET r == coord.msg.request_id
           notify == active_requests[r].exists /\ coord.msg.status = "completed"
       IN
       /\ notify => finals[r] < MaxFinal
       /\ IF notify
          THEN /\ SendStatusUpdate(r, "completed", "CoordinatorAgent",
                      [NoMeta EXCEPT
                          !.github_issue_number = coord.msg.metadata.github_issue_number,
                          !.github_issue_url = coord.msg.metadata.github_issue_url])
               /\ finals' = [finals EXCEPT ![r] = @ + 1]
          ELSE UNCHANGED <<topics, sent, finals>>
       /\ timers' = IF active_requests[r].exists /\ timers[r] = None
                    THEN [timers EXCEPT ![r] = Some(GraceDelay)]
                    ELSE timers
    /\ coord' = CoordIdle
    /\ UNCHANGED <<submitVars, active_requests, store, envVars, stage, monVars,
                   hostVars>>

\* the Timer's lambda, line 154: self.active_requests.pop(request_id, None)
TimerFire(r) ==
    /\ timers[r] = Some(0)
    /\ timers' = [timers EXCEPT ![r] = None]
    /\ active_requests' = [active_requests EXCEPT ![r] = NoEntry]
    /\ UNCHANGED <<submitVars, store, topics, sent, finals, envVars, stage, coord, monVars,
                   hostVars>>

\* ----------------------------------------------------- Python dict iteration
\* len(self.active_requests)
CacheSize == Cardinality({r \in Req : active_requests[r].exists})

\* The entries of active_requests lie in insertion order, which is the order of the
\* ids: the next live entry at or after position pos, 0 when the iterator is exhausted.
NextKey(pos) ==
    LET live == {r \in Req : r >= pos /\ active_requests[r].exists} IN
    IF live = {} THEN 0 ELSE CHOOSE r \in live : \A q \in live : r <= q

\* every next() of a dict iterator first compares the size it saw when it was made
\* with the dict's size now: "dictionary changed size during iteration"
ChangedSize(di_used) == di_used # CacheSize

\* ----------------------------------------- CoordinatorAgent: timeout monitor
\* the cached requests whose last_updated lies more than the threshold back
StaleRequests ==
    {r \in Req : active_requests[r].exists
                    /\ active_requests[r].age_updated > TIMEOUT_SECONDS}

\* _monitor_timeouts lines 161-166: a sweep begins; the scan's iterator is made
MonSweepStart ==
    /\ mon.pc = "sleep"
    /\ mon' = [MonIdle EXCEPT !.pc = "scan", !.di_used = CacheSize, !.pos = 1,
                              !.stale = StaleRequests, !.nap = mon.nap]
    /\ UNCHANGED <<submitVars, active_requests, timers, store, topics, sent, finals,
                   envVars, stage, coord, lister, query,
                   hostVars>>

\* a scan whose exception ends the monitor thread
MonScanStepEnds ==
    /\ mon.pc = "scan"
    /\ mon' = IF ChangedSize(mon.di_used) THEN [MonIdle EXCEPT !.pc = "ended"]
              ELSE LET k == NextKey(mon.pos) IN
                   IF k = 0 THEN [mon EXCEPT !.pc = "handle"]
                   ELSE [mon EXCEPT !.pos = k + 1,
                                    !.timeout_requests =
                                        IF active_requests[k].age_updated > TIMEOUT_SECONDS
                                        THEN Append(@, k) ELSE @]
    /\ UNCHANGED <<submitVars, active_requests, timers, store, topics, sent, finals,
                   envVars, stage, coord, lister, query,
                   hostVars>>

\* lines 166-168 and 178-180: one step of the scan. A changed size raises out of the
\* sweep into the except branch, which logs and sleeps for ErrorSleep; the loop then
\* tests self.monitoring again.
MonScanStep ==
    /\ mon.pc = "scan"
    /\ mon' = IF ChangedSize(mon.di_used) THEN [MonIdle EXCEPT !.nap = ErrorSleep]
              ELSE LET k == NextKey(mon.pos) IN
                   IF k = 0 THEN [mon EXCEPT !.pc = "handle"]
                   ELSE [mon EXCEPT !.pos = k + 1,
                                    !.timeout_requests =
                                        IF active_requests[k].age_updated > TIMEOUT_SECONDS
                                        THEN Append(@, k) ELSE @]
    /\ UNCHANGED <<submitVars, active_requests, timers, store, topics, sent, finals,
                   envVars, stage, coord, lister, query,
                   hostVars>>

\* a sweep that gives up at the first timed-out id whose record the store does not
\* return
MonHandleHalts ==
    /\ mon.pc = "handle"
    /\ mon' = IF mon.timeout_requests = <<>>
              THEN [mon EXCEPT !.pc = "cleanup", !.di_used = CacheSize, !.pos = 1]
              ELSE LET r == Head(mon.timeout_requests) IN
                   IF ~active_requests[r].exists
                   THEN [mon EXCEPT !.timeout_requests = Tail(@)]
                   ELSE IF GetRequestState(r).exists
                   THEN [mon EXCEPT !.pc = "timeout_set",
                                    !.snap = [GetRequestState(r) EXCEPT !.ttl = TIMEOUT_SECONDS]]
                   ELSE MonIdle
    /\ UNCHANGED <<submitVars, active_requests, timers, store, topics, sent, finals,
                   envVars, stage, coord, lister, query,
                   hostVars>>

\* lines 170-171 and _handle_timeout lines 182-195: the next timed-out id; an entry
\* gone meanwhile returns at once; otherwise set_error begins with its read. After
\* the last id, _cleanup_old_requests makes its own iterator.
MonHandle ==
    /\ mon.pc = "handle"
    /\ mon' = IF mon.timeout_requests = <<>>
              THEN [mon EXCEPT !.pc = "cleanup", !.di_used = CacheSize, !.pos = 1]
              ELSE LET r == Head(mon.timeout_requests) IN
                   IF ~active_requests[r].exists
                   THEN [mon EXCEPT !.timeout_requests = Tail(@)]
                   ELSE IF GetRequestState(r).exists
                   THEN [mon EXCEPT !.pc = "timeout_set",
                                    !.snap = [GetRequestState(r) EXCEPT !.ttl = TIMEOUT_SECONDS]]
                   ELSE [mon EXCEPT !.pc = "timeout_status", !.unsaved = @ \cup {r}]
    /\ UNCHANGED <<submitVars, active_requests, timers, store, topics, sent, finals,
                   envVars, stage, coord, lister, query,
                   hostVars>>

\* set_error: the write of update_request_state(status=FAILED, error_message)
MonTimeoutSet ==
    /\ mon.pc = "timeout_set"
    /\ store' = Setex(Head(mon.timeout_requests),
                      WithError(mon.snap, "Request timed out after 300 seconds"))
    /\ mon' = [mon EXCEPT !.pc = "timeout_status", !.snap = NoRecord,
                          !.unsaved = IF redis = "ok" THEN @
                                      ELSE @ \cup {Head(mon.timeout_requests)}]
    /\ UNCHANGED <<submitVars, active_requests, timers, topics, sent, finals, envVars,
                   stage, coord, lister, query,
                   hostVars>>

\* _handle_timeout lines 198-210: the 'failed' event flagged timeout, then the pop
MonTimeoutStatus ==
    /\ mon.pc = "timeout_status"
    /\ LET r == Head(mon.timeout_requests) IN
       /\ SendStatusUpdate(r, "failed", "CoordinatorAgent", TimeoutMeta)
       /\ active_requests' = [active_requests EXCEPT ![r] = NoEntry]
    /\ mon' = [mon EXCEPT !.pc = "handle", !.timeout_requests = Tail(@)]
    /\ UNCHANGED <<submitVars, timers, store, finals, envVars, stage, coord, lister, query,
                   hostVars>>

\* _cleanup_old_requests lines 215-229: one step of its scan; at the end every entry
\* older than the ceiling is popped. A changed size is caught inside and ends the
\* cleanup. Either way the sweep is over: time.sleep(30).
MonCleanupStep ==
    /\ mon.pc = "cleanup"
    /\ LET k == NextKey(mon.pos) IN
       IF ChangedSize(mon.di_used)
       THEN mon' = MonIdle /\ UNCHANGED active_requests
       ELSE IF k # 0
       THEN /\ mon' = [mon EXCEPT !.pos = k + 1,
                                  !.timeout_requests =
                                      IF active_requests[k].age_created > CeilingSeconds
                                      THEN Append(@, k) ELSE @]
            /\ UNCHANGED active_requests
       ELSE /\ mon' = MonIdle
            /\ active_requests' =
                   [r \in Req |-> IF \E i \in 1..Len(mon.timeout_requests) :
                                        mon.timeout_requests[i] = r
                                  THEN NoEntry ELSE active_requests[r]]
    /\ UNCHANGED <<submitVars, timers, store, topics, sent, finals, envVars, stage, coord,
                   lister, query,
                   hostVars>>

\* ------------------------------------------- CoordinatorAgent: the queries
\* get_request_status with the status of a cached request taken from its cache entry
StatusViewOfCache(state, cached) ==
    [exists |-> TRUE, request_id |-> state.request_id,
     status |-> IF cached THEN active_requests[state.request_id].status ELSE state.status,
     current_step |-> state.current_step, progress |-> state.progress,
     error_message |-> state.error_message,
     github_issue_number |-> state.github_issue_number,
     github_issue_url |-> state.github_issue_url, processing_time |-> cached]

\* the dict get_request_status returns, built from the store record; processing_time
\* is there only on the branch taken when the cache had the request
StatusView(state, cached) ==
    [exists |-> TRUE, request_id |-> state.request_id, status |-> state.status,
     current_step |-> state.current_step, progress |-> state.progress,
     error_message |-> state.error_message,
     github_issue_number |-> state.github_issue_number,
     github_issue_url |-> state.github_issue_url, processing_time |-> cached]
NoView == [exists |-> FALSE]

\* get_request_status is entered for request r by a caller ("api") or by the
\* enumeration ("list")
Called(r, caller) == [NoQuery EXCEPT !.pc = "called", !.rid = r, !.caller = caller]

\* a caller asks for the status of request r
QueryStatus(r) ==
    /\ query.pc = "idle"
    /\ lister.pc = "idle"
    /\ query' = Called(r, "api")
    /\ UNCHANGED <<submitVars, active_requests, timers, store, topics, sent, finals,
                   envVars, stage, coord, mon, lister,
                   hostVars>>

\* line 235: request_id in self.active_requests
QueryCheck ==
    /\ query.pc = "called"
    /\ query' = [query EXCEPT !.cached = active_requests[query.rid].exists,
                              !.pc = IF active_requests[query.rid].exists
                                     THEN "lookup" ELSE "fallback"]
    /\ UNCHANGED <<submitVars, active_requests, timers, store, topics, sent, finals,
                   envVars, stage, coord, mon, lister,
                   hostVars>>

\* lines 236-253: the entry is fetched (KeyError when it was evicted since the test:
\* the except returns None), the record is read, and a found record gives the view
QueryLookup ==
    /\ query.pc = "lookup"
    /\ LET state == GetRequestState(query.rid) IN
       query' = IF ~active_requests[query.rid].exists
                THEN [query EXCEPT !.pc = "done", !.view = NoView]
                ELSE IF state.exists
                THEN [query EXCEPT !.pc = "done", !.record = state,
                                   !.view = StatusView(state, TRUE)]
                ELSE [query EXCEPT !.pc = "fallback", !.record = state]
    /\ UNCHANGED <<submitVars, active_requests, timers, store, topics, sent, finals,
                   envVars, stage, coord, mon, lister,
                   hostVars>>

\* lines 255-270: the record is read (again); the result is the view built from it,
\* and None when the store has none
QueryFallback ==
    /\ query.pc = "fallback"
    /\ LET state == GetRequestState(query.rid) IN
       query' = [query EXCEPT !.pc = "done", !.record = state,
                              !.view = IF state.exists THEN StatusView(state, FALSE)
                                       ELSE NoView]
    /\ UNCHANGED <<submitVars, active_requests, timers, store, topics, sent, finals,
                   envVars, stage, coord, mon, lister,
                   hostVars>>

\* the caller has its answer
QueryReturn ==
    /\ query.pc = "done"
    /\ query.caller = "api"
    /\ query' = NoQuery
    /\ UNCHANGED <<submitVars, active_requests, timers, store, topics, sent, finals,
                   envVars, stage, coord, mon, lister,
                   hostVars>>

\* get_all_active_requests lines 278-280: the iterator over the keys is made
ListBegin ==
    /\ lister.pc = "idle"
    /\ query.pc = "idle"
    /\ lister' = [ListerIdle EXCEPT !.pc = "iter", !.di_used = CacheSize, !.pos = 1,
                                    !.begin = {r \in Req : active_requests[r].exists}]
    /\ UNCHANGED <<submitVars, active_requests, timers, store, topics, sent, finals,
                   envVars, stage, coord, mon, query,
                   hostVars>>

\* line 280: next() on the iterator. A changed size raises and the except at 285-287
\* returns []; an exhausted iterator ends the loop; else get_request_status is called.
ListStep ==
    /\ lister.pc = "iter"
    /\ query.pc = "idle"
    /\ IF ChangedSize(lister.di_used)
       THEN /\ lister' = [lister EXCEPT !.pc = "done", !.result = <<>>, !.raised = TRUE]
            /\ UNCHANGED query
       ELSE LET k == NextKey(lister.pos) IN
            IF k = 0
            THEN /\ lister' = [lister EXCEPT !.pc = "done"]
                 /\ UNCHANGED query
            ELSE /\ lister' = [lister EXCEPT !.pos = k + 1]
                 /\ query' = Called(k, "list")
    /\ UNCHANGED <<submitVars, active_requests, timers, store, topics, sent, finals,
                   envVars, stage, coord, mon,
                   hostVars>>

\* lines 281-283: a status that is not None is appended
ListCollect ==
    /\ lister.pc = "iter"
    /\ query.pc = "done"
    /\ query.caller = "list"
    /\ lister' = [lister EXCEPT !.result = IF query.view.exists
                                           THEN Append(@, query.view) ELSE @]
    /\ query' = NoQuery
    /\ UNCHANGED <<submitVars, active_requests, timers, store, topics, sent, finals,
                   envVars, stage, coord, mon,
                   hostVars>>

\* line 284: the caller has its list
ListReturn ==
    /\ lister.pc = "done"
    /\ lister' = ListerIdle
    /\ UNCHANGED <<submitVars, active_requests, timers, store, topics, sent, finals,
                   envVars, stage, coord, mon, query,
                   hostVars>>

\* ------------------------------------------------- BugReportTriageService
NextComponent(done) ==
    Components[CHOOSE i \in 1..Len(Components) :
                   Components[i] \notin done /\ \A j \in 1..(i - 1) : Components[j] \in done]

\* start_service lines 80-100: agents and consumers are built, start_monitoring
\* creates and starts the monitor thread, the consumer threads start, running is set.
\* When Thread.start() raises in start_monitoring, the except at 110-113 calls
\* stop_service (line 123: running = False).
SvcStart(started) ==
    /\ service.pc = "new"
    /\ service' = IF started
                  THEN [service EXCEPT !.running = TRUE, !.pc = "serving",
                                       !.thread = "started", !.monitoring = TRUE,
                                       !.loops[1] = "head"]
                  ELSE [service EXCEPT !.running = FALSE, !.pc = "stop_consumers",
                                       !.thread = "unstarted", !.monitoring = TRUE]
    /\ UNCHANGED <<submitVars, active_requests, timers, store, topics, sent, finals,
                   envVars, stage, coord, monVars, log>>

\* stop_service lines 119-123, from the signal handler or a caller
SvcStop ==
    /\ service.pc = "serving"
    /\ service' = [service EXCEPT !.running = FALSE, !.pc = "stop_consumers"]
    /\ UNCHANGED <<submitVars, active_requests, timers, store, topics, sent, finals,
                   envVars, stage, coord, monVars, log>>

\* lines 126-131: stop_consuming on the next consumer; an exception is logged
SvcStopConsumer(raises) ==
    /\ service.pc = "stop_consumers"
    /\ service.stopped # ComponentSet
    /\ LET c == NextComponent(service.stopped) IN
       service' = [service EXCEPT !.stopped = @ \cup {c},
                                  !.flag[c] = FALSE,
                                  !.closed = IF service.loop[c] = "none" THEN @
                                             ELSE @ \cup {c},
                                  !.raised = IF raises THEN @ \cup {<<"consumer", c>>}
                                             ELSE @]
    /\ UNCHANGED <<submitVars, active_requests, timers, store, topics, sent, finals,
                   envVars, stage, coord, monVars, log>>

\* lines 133-135 with stop_monitoring (coordinator_agent.py 38-43): join() on a thread
\* that was never started raises RuntimeError, which nothing in stop_service catches
SvcStopMonitoring ==
    /\ service.pc = "stop_consumers"
    /\ service.stopped = ComponentSet
    /\ service' = IF service.thread = "unstarted"
                  THEN [service EXCEPT !.monitor_stopped = TRUE, !.pc = "stop_raised",
                                       !.monitoring = FALSE,
                                       !.raised = @ \cup {<<"monitor", "coordinator">>}]
                  ELSE [service EXCEPT !.monitor_stopped = TRUE, !.pc = "cleanup",
                                       !.monitoring = FALSE]
    /\ UNCHANGED <<submitVars, active_requests, timers, store, topics, sent, finals,
                   envVars, stage, coord, monVars, log>>

\* lines 137-143: cleanup on the next agent; an exception is logged. After the last
\* one stop_service returns.
SvcCleanup(raises) ==
    /\ service.pc = "cleanup"
    /\ LET a == NextComponent(service.cleaned)
           cleaned == service.cleaned \cup {a}
       IN
       service' = [service EXCEPT !.cleaned = cleaned,
                                  !.raised = IF raises THEN @ \cup {<<"agent", a>>} ELSE @,
                                  !.pc = IF cleaned = ComponentSet THEN "stopped"
                                         ELSE "cleanup"]
    /\ UNCHANGED <<submitVars, active_requests, timers, store, topics, sent, finals,
                   envVars, stage, coord, monVars, log>>

\* a check that lets every call through to the coordinator
SvcSubmitCheckUnguarded(r) ==
    /\ r = nextId
    /\ sub[r].pc \in {"new", "refused", "caught"}
    /\ sub' = [sub EXCEPT ![r].pc = "checked"]
    /\ UNCHANGED <<nextId, active_requests, timers, store, topics, sent, finals, envVars,
                   stage, coord, monVars, hostVars>>

\* BugReportTriageService.submit_bug_report lines 149-151: the running flag is
\* tested; when it is False the call returns None and the coordinator is not called.
\* Otherwise coordinator.submit_bug_report is entered (SubmitBegin), and what it
\* returns is returned.
SvcSubmitCheck(r) ==
    /\ r = nextId
    /\ sub[r].pc \in {"new", "refused", "caught"}
    /\ sub' = [sub EXCEPT ![r].pc = IF service.running THEN "checked" ELSE "refused"]
    /\ UNCHANGED <<nextId, active_requests, timers, store, topics, sent, finals, envVars,
                   stage, coord, monVars, hostVars>>

\* lines 153-154: a call that found the service running enters
\* coordinator.submit_bug_report
SvcSubmitCall(r, bug) ==
    /\ sub[r].pc = "checked"
    /\ SubmitBegin(r, bug)

\* lines 153-162: the call of self.coordinator.submit_bug_report raised, and the
\* except returns None. CoordinatorAgent.submit_bug_report catches Exception itself, so
\* this is the service holding a coordinator object whose method raises.
SvcSubmitRaised(r) ==
    /\ r = nextId
    /\ sub[r].pc = "checked"
    /\ sub' = [sub EXCEPT ![r].pc = "caught"]
    /\ UNCHANGED <<nextId, active_requests, timers, store, topics, sent, finals, envVars,
                   stage, coord, monVars, hostVars>>

\* KafkaConsumerManager.start_consuming lines 77-89, in the thread start_service made
\* for stage s: the group subscribes and gets its first assignment. The group has no
\* committed offset and auto.offset.reset is "latest", so its position is the end of
\* the log: what was published before is never polled.
ConsumerStart(s) ==
    /\ service.pc = "serving"
    /\ s \notin service.polling
    /\ service' = [service EXCEPT !.polling = @ \cup {s}]
    /\ topics' = [topics EXCEPT ![InTopic(s)] = [k \in Req |-> <<>>]]
    /\ UNCHANGED <<submitVars, active_requests, timers, store, sent, finals, envVars,
                   stage, coord, monVars, log>>

\* line 99: poll() of a consumer that has its assignment hands the next message of
\* key k to the stage's handler
Poll(s, k) ==
    /\ s \in service.polling
    /\ CASE s = "triage" -> TriageRecv(k)
         [] s = "ticket" -> TicketRecv(k)
         [] s = "github" -> GitHubRecv(k)

\* ------------------------------------- the threads and their stop flags
\* start_consuming lines 75-88 in the thread start_service made for consumer c: the
\* Consumer is built and subscribed, then running is set
ConsumeBegin(c) ==
    /\ service.thread = "started"
    /\ service.loop[c] = "none"
    /\ service' = [service EXCEPT !.loop[c] = "head", !.flag[c] = TRUE]
    /\ UNCHANGED <<submitVars, active_requests, timers, store, topics, sent, finals,
                   envVars, stage, coord, monVars, log>>

\* line 93: while self.running; a false flag ends the loop and the thread
ConsumeHead(c) ==
    /\ service.loop[c] = "head"
    /\ service' = [service EXCEPT !.loop[c] = IF service.flag[c] THEN "poll"
                                              ELSE "exited"]
    /\ UNCHANGED <<submitVars, active_requests, timers, store, topics, sent, finals,
                   envVars, stage, coord, monVars, log>>

\* lines 96-125: poll(timeout=1.0) gives nothing and the loop goes round, or gives a
\* message, which goes to the handler. A consumer that stop_consuming has closed
\* gives no message: its poll comes back empty or raises, and the except at 127 ends
\* the loop.
ConsumePoll(c, outcome) ==
    /\ service.loop[c] = "poll"
    /\ outcome = "message" => c \notin service.closed
    /\ outcome = "raises" => c \in service.closed
    /\ service' = [service EXCEPT !.loop[c] = CASE outcome = "nothing" -> "head"
                                                [] outcome = "message" -> "handle"
                                                [] outcome = "raises" -> "exited"]
    /\ UNCHANGED <<submitVars, active_requests, timers, store, topics, sent, finals,
                   envVars, stage, coord, monVars, log>>

\* the handler returns, or raises into the except at 121
ConsumeReturn(c) ==
    /\ service.loop[c] = "handle"
    /\ service' = [service EXCEPT !.loop[c] = "head"]
    /\ UNCHANGED <<submitVars, active_requests, timers, store, topics, sent, finals,
                   envVars, stage, coord, monVars, log>>

\* coordinator_agent.py 29-36, start_monitoring: when the flag is down it is raised
\* and a new daemon thread runs _monitor_timeouts
StartMonitoring ==
    /\ service.pc # "new"
    /\ ~service.monitoring
    /\ \E i \in 1..MaxLoops :
          /\ service.loops[i] = "none"
          /\ \A j \in 1..(i - 1) : service.loops[j] # "none"
          /\ service' = [service EXCEPT !.monitoring = TRUE, !.loops[i] = "head"]
    /\ UNCHANGED <<submitVars, active_requests, timers, store, topics, sent, finals,
                   envVars, stage, coord, monVars, log>>

\* 38-43, stop_monitoring: the flag is lowered; join(timeout=5) returns when the
\* thread has ended or after five seconds
StopMonitoring ==
    /\ service.pc # "new"
    /\ service.monitoring
    /\ service' = [service EXCEPT !.monitoring = FALSE]
    /\ UNCHANGED <<submitVars, active_requests, timers, store, topics, sent, finals,
                   envVars, stage, coord, monVars, log>>

\* 161: while self.monitoring, tested by thread i; a lowered flag ends the thread
LoopHead(i) ==
    /\ service.loops[i] = "head"
    /\ service' = [service EXCEPT !.loops[i] = IF service.monitoring THEN "sweep"
                                               ELSE "ended"]
    /\ UNCHANGED <<submitVars, active_requests, timers, store, topics, sent, finals,
                   envVars, stage, coord, monVars, log>>

\* 162-180: the sweep of thread i is over and the thread sleeps
LoopSweep(i) ==
    /\ service.loops[i] = "sweep"
    /\ service' = [service EXCEPT !.loops[i] = "sleep"]
    /\ UNCHANGED <<submitVars, active_requests, timers, store, topics, sent, finals,
                   envVars, stage, coord, monVars, log>>

\* 176, 180: time.sleep returns in thread i, which goes back to the test of the flag
LoopWake(i) ==
    /\ service.loops[i] = "sleep"
    /\ service' = [service EXCEPT !.loops[i] = "head"]
    /\ UNCHANGED <<submitVars, active_requests, timers, store, topics, sent, finals,
                   envVars, stage, coord, monVars, log>>

\* ------------------------------------------------------------ environment
\* d seconds pass: ages grow, TTLs and Timers run down, an expired key is gone.
\* A sweep is taken to be short against d, and the clock is followed for n steps of
\* d over the life of a cache entry.
Tick(d, n) ==
    /\ mon.pc = "sleep"
    /\ \A r \in Req : active_requests[r].exists => active_requests[r].age_created < n * d
    /\ active_requests' =
           [r \in Req |->
               IF active_requests[r].exists
               THEN [active_requests[r] EXCEPT
                        !.age_created = Min(@ + d, CeilingSeconds + 1),
                        !.age_updated = Min(@ + d, TIMEOUT_SECONDS + 1)]
               ELSE NoEntry]
    /\ store' = [r \in Req |->
                    IF store[r].exists /\ store[r].ttl > d
                    THEN [store[r] EXCEPT !.ttl = @ - d]
                    ELSE NoRecord]
    /\ timers' = [r \in Req |->
                     IF timers[r] = None THEN None
                     ELSE {Max(0, t - d) : t \in timers[r]}]
    /\ UNCHANGED <<submitVars, topics, sent, finals, envVars, stage, coord, monVars,
                   hostVars>>

\* the messages of another producer that wait in the topics
Stray(m) == ~Decodes(m) \/ LacksId(m) \/ DOMAIN m = {"request_id"}
Strays ==
    UNION {{<<t, k, i>> : i \in {j \in DOMAIN topics[t][k] : Stray(topics[t][k][j])}} :
              t \in Topics, k \in Req}

\* another producer leaves message m on topic t under key k
ForeignPublish(t, k, m) ==
    /\ Cardinality(Strays) < MaxQueue
    /\ topics' = [topics EXCEPT ![t][k] = Append(@, m)]
    /\ UNCHANGED <<submitVars, active_requests, timers, store, sent, finals, envVars,
                   stage, coord, monVars, hostVars>>

\* the broker starts or stops failing
KafkaSet(mode) ==
    /\ kafka # mode
    /\ kafka' = mode
    /\ UNCHANGED <<submitVars, active_requests, timers, store, topics, sent, finals, redis,
                   stage, coord, monVars,
                   hostVars>>

\* the store starts or stops failing
RedisSet(mode) ==
    /\ redis # mode
    /\ redis' = mode
    /\ UNCHANGED <<submitVars, active_requests, timers, store, topics, sent, finals, kafka,
                   stage, coord, monVars,
                   hostVars>>

\* every step of the three stage loops, over the requests 1..n
StageSteps(n) ==
    \/ \E r \in 1..n : TriageRecv(r)
    \/ TriageStart
    \/ \E ok \in BOOLEAN : TriageAnalyze(ok)
    \/ TriageProgressSet
    \/ TriagePublish
    \/ TriageComplete
    \/ TriageTriagedGet
    \/ TriageTriagedSet
    \/ \E r \in 1..n : TicketRecv(r)
    \/ \E ok \in BOOLEAN : TicketCreate(ok)
    \/ TicketProgressSet
    \/ TicketPublish
    \/ TicketComplete
    \/ TicketInProgressGet
    \/ TicketInProgressSet
    \/ \E r \in 1..n : GitHubRecv(r)
    \/ \E ok \in BOOLEAN, num \in IssueNumbers : GitHubApi(ok, num)
    \/ GitHubCompletedSet
    \/ GitHubComplete
    \/ GitHubFinal
    \/ \E s \in Stages : HandleErrorGet(s)
    \/ \E s \in Stages : HandleErrorSet(s)
    \/ \E s \in Stages : HandleErrorStatus(s)

NextPipeline ==
    \/ \E r \in 1..PipelineReqs, bug \in BugIds : SubmitBegin(r, bug)
    \/ \E r \in 1..PipelineReqs : SubmitSend(r)
    \/ \E r \in 1..PipelineReqs : SubmitNotify(r)
    \/ StageSteps(PipelineReqs)

SpecPipeline == Init /\ [][NextPipeline]_vars

\* the monitor's steps
MonitorSteps ==
    \/ MonSweepStart
    \/ MonScanStep
    \/ MonHandle
    \/ MonTimeoutSet
    \/ MonTimeoutStatus
    \/ MonCleanupStep

\* the classifier stage alone, as far as its 'completed' event
TriageSteps(n) ==
    \/ \E r \in 1..n : TriageRecv(r)
    \/ TriageStart
    \/ \E ok \in BOOLEAN : TriageAnalyze(ok)
    \/ TriageProgressSet
    \/ TriagePublish
    \/ TriageComplete
    \/ TriageTriagedGet
    \/ TriageTriagedSet
    \/ HandleErrorGet("triage")
    \/ HandleErrorSet("triage")
    \/ HandleErrorStatus("triage")

\* one request, the classifier stage, the status consumer, the Timer and the monitor
NextCoordinator ==
    \/ \E r \in 1..PipelineReqs, bug \in BugIds : SubmitBegin(r, bug)
    \/ \E r \in 1..PipelineReqs : SubmitSend(r)
    \/ \E r \in 1..PipelineReqs : SubmitNotify(r)
    \/ TriageSteps(PipelineReqs)
    \/ \E r \in 1..PipelineReqs : CoordRecv(r)
    \/ CoordCompletion
    \/ \E r \in 1..PipelineReqs : TimerFire(r)
    \/ Tick(TIMEOUT_SECONDS, MaxTicks)
    \/ MonitorSteps

SpecCoordinator == Init /\ [][NextCoordinator]_vars

\* steps of TIMEOUT_SECONDS that carry a cache entry past the cleanup ceiling
WholeLife == CeilingSeconds \div TIMEOUT_SECONDS + 1

\* the same with the clock followed over the whole life of a cache entry
NextWatch ==
    \/ \E r \in 1..PipelineReqs, bug \in BugIds : SubmitBegin(r, bug)
    \/ \E r \in 1..PipelineReqs : SubmitSend(r)
    \/ \E r \in 1..PipelineReqs : SubmitNotify(r)
    \/ TriageSteps(PipelineReqs)
    \/ \E r \in 1..PipelineReqs : CoordRecv(r)
    \/ CoordCompletion
    \/ \E r \in 1..PipelineReqs : TimerFire(r)
    \/ Tick(TIMEOUT_SECONDS, WholeLife)
    \/ MonitorSteps

\* the monitor thread, the Timers and the status consumer always get their turn and
\* time passes between sweeps (the clock stands still while a sweep runs, so it needs
\* strong fairness); submit calls and the stage loop may stall
SpecWatch ==
    /\ Init /\ [][NextWatch]_vars
    /\ WF_vars(MonitorSteps)
    /\ SF_vars(Tick(TIMEOUT_SECONDS, WholeLife))
    /\ WF_vars(\E r \in 1..PipelineReqs : TimerFire(r))
    /\ WF_vars(\E r \in 1..PipelineReqs : CoordRecv(r))
    /\ WF_vars(CoordCompletion)

\* two requests, the classifier stage creating their records, the clock and the monitor
NextSweep ==
    \/ \E r \in 1..CacheReqs, bug \in BugIds : SubmitBegin(r, bug)
    \/ \E r \in 1..CacheReqs : SubmitSend(r)
    \/ \E r \in 1..CacheReqs : SubmitNotify(r)
    \/ \E r \in 1..CacheReqs : TriageRecv(r)
    \/ TriageStart
    \/ Tick(TIMEOUT_SECONDS, MaxTicks)
    \/ MonitorSteps

SpecSweep == Init /\ [][NextSweep]_vars

\* concurrent submit calls against a broker that fails and recovers
NextSubmit ==
    \/ \E r \in 1..CacheReqs, bug \in BugIds \cup {NoBugReport} : SubmitBegin(r, bug)
    \/ \E r \in 1..CacheReqs : SubmitSend(r)
    \/ \E r \in 1..CacheReqs : SubmitNotify(r)
    \/ \E mode \in {"ok", "lossy", "error"} : KafkaSet(mode)

SpecSubmit == Init /\ [][NextSubmit]_vars

\* one request, the classifier stage, the status consumer updating the cache entry,
\* and status queries
NextQuery ==
    \/ \E r \in 1..PipelineReqs, bug \in BugIds : SubmitBegin(r, bug)
    \/ \E r \in 1..PipelineReqs : SubmitSend(r)
    \/ \E r \in 1..PipelineReqs : SubmitNotify(r)
    \/ TriageSteps(PipelineReqs)
    \/ \E r \in 1..PipelineReqs : CoordRecv(r)
    \/ \E r \in 1..PipelineReqs : QueryStatus(r)
    \/ QueryCheck
    \/ QueryLookup
    \/ QueryFallback
    \/ QueryReturn

SpecQuery == Init /\ [][NextQuery]_vars

\* two requests, the classifier stage creating their records, and enumerations of
\* the cache
NextList ==
    \/ \E r \in 1..CacheReqs, bug \in BugIds : SubmitBegin(r, bug)
    \/ \E r \in 1..CacheReqs : SubmitSend(r)
    \/ \E r \in 1..CacheReqs : SubmitNotify(r)
    \/ \E r \in 1..CacheReqs : TriageRecv(r)
    \/ TriageStart
    \/ ListBegin
    \/ ListStep
    \/ QueryCheck
    \/ QueryLookup
    \/ QueryFallback
    \/ ListCollect
    \/ ListReturn

SpecList == Init /\ [][NextList]_vars

\* one request through the three stages, with another producer leaving messages the
\* stages cannot use on their topics
\* each stage loop from the receipt of a message to the hand-over of its output
HandOverSteps(n) ==
    \/ \E r \in 1..n : TriageRecv(r)
    \/ TriageStart
    \/ TriageAnalyze(TRUE)
    \/ TriageProgressSet
    \/ TriagePublish
    \/ \E r \in 1..n : TicketRecv(r)
    \/ TicketCreate(TRUE)
    \/ TicketProgressSet
    \/ TicketPublish
    \/ \E r \in 1..n : GitHubRecv(r)

NextMalformed ==
    \/ \E r \in 1..PipelineReqs, bug \in BugIds : SubmitBegin(r, bug)
    \/ \E r \in 1..PipelineReqs : SubmitSend(r)
    \/ HandOverSteps(PipelineReqs)
    \/ \E t \in Topics \ {STATUS_TOPIC}, k \in 1..PipelineReqs :
           \E m \in ForeignMessages(t, k) : ForeignPublish(t, k, m)

SpecMalformed == Init /\ [][NextMalformed]_vars

\* one request and the classifier stage against a broker and a store that fail and
\* recover
NextRelay ==
    \/ \E r \in 1..PipelineReqs, bug \in BugIds : SubmitBegin(r, bug)
    \/ \E r \in 1..PipelineReqs : SubmitSend(r)
    \/ \E r \in 1..PipelineReqs : SubmitNotify(r)
    \/ TriageSteps(PipelineReqs)
    \/ \E mode \in {"ok", "lossy", "error"} : KafkaSet(mode)
    \/ \E mode \in {"ok", "error"} : RedisSet(mode)

SpecRelay == Init /\ [][NextRelay]_vars

\* the service object: its start and stop, and submissions made through it
NextService ==
    \/ \E started \in BOOLEAN : SvcStart(started)
    \/ SvcStop
    \/ \E raises \in BOOLEAN : SvcStopConsumer(raises)
    \/ SvcStopMonitoring
    \/ \E raises \in BOOLEAN : SvcCleanup(raises)
    \/ \E r \in 1..CacheReqs : SvcSubmitCheck(r)
    \/ \E r \in 1..CacheReqs : SvcSubmitRaised(r)
    \/ \E r \in 1..CacheReqs, bug \in BugIds \cup {NoBugReport} : SvcSubmitCall(r, bug)
    \/ \E r \in 1..CacheReqs : SubmitSend(r)
    \/ \E r \in 1..CacheReqs : SubmitNotify(r)

SpecService == Init /\ [][NextService]_vars

\* one request that the classifier fails, and the three threads that touch the cache:
\* the status consumer with its test and its update as separate steps, the Timer and
\* the monitor
NextCache ==
    \/ \E r \in 1..PipelineReqs, bug \in BugIds : SubmitBegin(r, bug)
    \/ \E r \in 1..PipelineReqs : SubmitSend(r)
    \/ \E r \in 1..PipelineReqs : TriageRecv(r)
    \/ TriageStart
    \/ TriageAnalyze(FALSE)
    \/ HandleErrorGet("triage")
    \/ HandleErrorSet("triage")
    \/ HandleErrorStatus("triage")
    \/ \E r \in 1..PipelineReqs : CoordTest(r)
    \/ CoordUpdate
    \/ CoordCompletion
    \/ \E r \in 1..PipelineReqs : TimerFire(r)
    \/ Tick(TIMEOUT_SECONDS, MaxTicks)
    \/ MonitorSteps

SpecCache == Init /\ [][NextCache]_vars

\* the service from its start: submissions through it, the consumer threads getting
\* their assignments, and the stage loops up to the hand-over. (The other
\* specifications take every consumer to hold its assignment before the first message
\* is published.)
NextDelivery ==
    \/ SvcStart(TRUE)
    \/ \E r \in 1..CacheReqs : SvcSubmitCheck(r)
    \/ \E r \in 1..CacheReqs, bug \in BugIds : SvcSubmitCall(r, bug)
    \/ \E r \in 1..CacheReqs : SubmitSend(r)
    \/ \E s \in Stages : ConsumerStart(s)
    \/ \E s \in Stages, k \in 1..CacheReqs : Poll(s, k)
    \/ TriageStart
    \/ TriageAnalyze(TRUE)
    \/ TriageProgressSet
    \/ TriagePublish
    \/ TicketCreate(TRUE)
    \/ TicketProgressSet
    \/ TicketPublish

SpecDelivery == Init /\ [][NextDelivery]_vars

\* two requests, the classifier creating a record, the clock and the monitor, against
\* a store and a broker that fail and recover
NextFaultySweep ==
    \/ \E r \in 1..CacheReqs, bug \in BugIds : SubmitBegin(r, bug)
    \/ \E r \in 1..CacheReqs : SubmitSend(r)
    \/ \E r \in 1..CacheReqs : TriageRecv(r)
    \/ Tick(TIMEOUT_SECONDS, MaxTicks)
    \/ MonitorSteps
    \/ \E mode \in {"ok", "error"} : KafkaSet(mode)
    \/ \E mode \in {"ok", "error"} : RedisSet(mode)

SpecFaultySweep == Init /\ [][NextFaultySweep]_vars

\* two requests, the status consumer, the monitor, and a clock that carries cache
\* entries past the cleanup ceiling; no stage writes to the store here, so the record
\* of a request that has timed out has expired and set_error has nothing to write
NextCeiling ==
    \/ \E r \in 1..CacheReqs, bug \in BugIds : SubmitBegin(r, bug)
    \/ \E r \in 1..CacheReqs : SubmitSend(r)
    \/ \E r \in 1..CacheReqs : SubmitNotify(r)
    \/ \E r \in 1..CacheReqs : CoordRecv(r)
    \/ Tick(CeilingSeconds, MaxTicks)
    \/ MonSweepStart
    \/ MonScanStep
    \/ MonHandle
    \/ MonTimeoutStatus
    \/ MonCleanupStep

SpecCeiling == Init /\ [][NextCeiling]_vars

\* two requests on their way through the three stages, the formatter and the sink
\* as far as the hand-over of their output
NextJourney ==
    \/ \E r \in 1..CacheReqs, bug \in BugIds : SubmitBegin(r, bug)
    \/ \E r \in 1..CacheReqs : SubmitSend(r)
    \/ HandOverSteps(CacheReqs)
    \/ TriageComplete
    \/ TriageTriagedGet
    \/ TriageTriagedSet

SpecJourney == Init /\ [][NextJourney]_vars

\* the service from start to stop with its four consume loops and its monitor thread
NextShutdown ==
    \/ SvcStart(TRUE)
    \/ SvcStop
    \/ SvcStopConsumer(FALSE)
    \/ SvcStopMonitoring
    \/ SvcCleanup(FALSE)
    \/ \E c \in ComponentSet : ConsumeBegin(c)
    \/ \E c \in ComponentSet : ConsumeHead(c)
    \/ \E c \in ComponentSet, outcome \in {"nothing", "message", "raises"} :
           ConsumePoll(c, outcome)
    \/ \E c \in ComponentSet : ConsumeReturn(c)
    \/ LoopHead(1)
    \/ LoopSweep(1)
    \/ LoopWake(1)

SpecShutdown == Init /\ [][NextShutdown]_vars

\* the coordinator's monitoring switched on and off by its callers
NextMonitoring ==
    \/ SvcStart(TRUE)
    \/ StartMonitoring
    \/ StopMonitoring
    \/ \E i \in 1..MaxLoops : LoopHead(i)
    \/ \E i \in 1..MaxLoops : LoopSweep(i)
    \/ \E i \in 1..MaxLoops : LoopWake(i)

SpecMonitoring == Init /\ [][NextMonitoring]_vars

\* the whole system
Next ==
    \/ \E r \in Req, bug \in BugIds \cup {NoBugReport} : SubmitBegin(r, bug)
    \/ \E r \in Req : SubmitSend(r)
    \/ \E r \in Req : SubmitNotify(r)
    \/ StageSteps(MaxReq)
    \/ \E r \in Req : CoordRecv(r)
    \/ CoordCompletion
    \/ \E r \in Req : TimerFire(r)
    \/ MonitorSteps
    \/ \E r \in Req : QueryStatus(r)
    \/ QueryCheck
    \/ QueryLookup
    \/ QueryFallback
    \/ QueryReturn
    \/ ListBegin
    \/ ListStep
    \/ ListCollect
    \/ ListReturn
    \/ \E d \in {SweepSleep, TIMEOUT_SECONDS, CeilingSeconds} : Tick(d, MaxTicks)
    \/ \E mode \in {"ok", "lossy", "error"} : KafkaSet(mode)
    \/ \E mode \in {"ok", "error"} : RedisSet(mode)
    \/ \E t \in Topics, k \in Req : \E m \in ForeignMessages(t, k) : ForeignPublish(t, k, m)
    \/ \E started \in BOOLEAN : SvcStart(started)
    \/ SvcStop
    \/ \E raises \in BOOLEAN : SvcStopConsumer(raises)
    \/ SvcStopMonitoring
    \/ \E raises \in BOOLEAN : SvcCleanup(raises)
    \/ \E r \in Req : SvcSubmitCheck(r)
    \/ \E r \in Req : SvcSubmitRaised(r)

Spec == Init /\ [][Next]_vars

\* ================================================================ claims
Terminal == {CREATED, FAILED}

\* C1: once a store record has status CREATED or FAILED, no later step changes the
\* status of that record.
C1_TerminalStatusKept ==
    [][\A r \in Req :
          (store[r].exists /\ store[r].status \in Terminal /\ store'[r].exists)
              => store'[r].status = store[r].status]_vars

Rank(status) ==
    CASE status = PENDING -> 0
      [] status = TRIAGED -> 1
      [] status = IN_PROGRESS -> 2
      [] status = CREATED -> 3
      [] status = FAILED -> 4

\* C2: under any interleaving of the stage loops the status of a store record only
\* moves forward along PENDING, TRIAGED, IN_PROGRESS, CREATED, or to FAILED; a stage's
\* write after its publish never replaces a later status by an earlier one.
C2_StatusMovesForward ==
    [][\A r \in Req :
          (store[r].exists /\ store'[r].exists)
              => Rank(store'[r].status) >= Rank(store[r].status)]_vars

\* the sink announced success for r: its 'completed' event with the issue number
SinkSucceeded(r) ==
    \E n \in IssueNumbers : StatusUpdate(r, "completed", "GitHubAPIAgent", IssueMeta(n)) \in sent

\* no stage is handling r and no message for r waits on a pipeline topic
Settled(r) ==
    /\ \A s \in Stages : stage[s].pc = "poll" \/ stage[s].rid # r
    /\ \A t \in Topics \ {STATUS_TOPIC} : topics[t][r] = <<>>

\* C3: a request the sink completed ends with a store record of status CREATED, with
\* the issue number and url set and three progress entries, one per stage.
C3_CompletedRecord ==
    \A r \in Req :
        (SinkSucceeded(r) /\ Settled(r))
            => /\ store[r].exists
               /\ store[r].status = CREATED
               /\ store[r].github_issue_number # None
               /\ store[r].github_issue_url # None
               /\ Len(store[r].progress) = 3

\* the monitor's 'failed' event for r, flagged timeout
TimeoutEvent(r) == StatusUpdate(r, "failed", "CoordinatorAgent", TimeoutMeta)

\* a sweep ends: the monitor goes back to sleep
SweepEnds == mon.pc # "sleep" /\ mon'.pc = "sleep"

\* C4: every request that was stale in the cache when a sweep began has, by the end
\* of that sweep, a 'failed' event flagged timeout on the status topic and no cache
\* entry.
C4_SweepFailsEveryStale ==
    [][SweepEnds => \A r \in mon.stale :
                        TimeoutEvent(r) \in sent' /\ ~active_requests'[r].exists]_vars

\* the classifier stage has seen r: its 'processing' event follows create_request_state
ClassifierStarted(r) == StatusUpdate(r, "processing", "TriageAgent", NoMeta) \in sent

\* this step puts the monitor's timeout event for r on the status topic
ForceFails(r) == TimeoutEvent(r) \notin sent /\ TimeoutEvent(r) \in sent'

\* C5: whenever the monitor force-fails a request whose record the classifier stage
\* created, the record is still in the store and ends FAILED with the timeout message:
\* the monitor fires before the record's TTL runs out.
C5_ForceFailFindsRecord ==
    [][\A r \in Req :
          (ForceFails(r) /\ ClassifierStarted(r))
              => /\ store'[r].exists
                 /\ store'[r].status = FAILED
                 /\ store'[r].error_message = Some("Request timed out after 300 seconds")]_vars

\* a stage reported a terminal state of r: a 'failed' event of a stage, or the sink's
\* 'completed'
StageTerminalEvent(r) ==
    \E e \in sent :
        /\ e.request_id = r
        /\ \/ e.status = "failed" /\ e.agent # "CoordinatorAgent"
           \/ e.status = "completed" /\ e.agent = "GitHubAPIAgent"

\* C6: every accepted request (submit returned its id) for which the stages report no
\* terminal state is eventually force-failed by the monitor: a 'failed' event flagged
\* timeout is eventually on the status topic, when the monitor, the clock and the
\* status consumer keep running and the stages may stall anywhere.
C6_EventuallyForceFailed ==
    \A r \in Req :
        (sub[r].pc = "returned") ~> (StageTerminalEvent(r) \/ TimeoutEvent(r) \in sent)

\* the 'submitted' event of submit_bug_report
SubmittedEvent(r) == StatusUpdate(r, "submitted", "CoordinatorAgent", NoMeta)
Registered(r) ==
    /\ active_requests[r].exists
    /\ active_requests[r].status = "submitted"
    /\ active_requests[r].bug_report_id = sub[r].bug
SubmitEnded(r) == sub[r].pc \in {"returned", "rejected", "raised"}

C8_CacheViewWithoutRecord ==
    query.pc = "done" => (query.view.exists <=> (query.cached \/ query.record.exists))

\* C9: when get_request_status finishes for a request that is in the cache and has a
\* store record, the view it returns carries the fields of the store record.
C9_ViewFromStoreRecord ==
    [][(query.pc # "done" /\ query'.pc = "done"
            /\ active_requests[query.rid].exists /\ store[query.rid].exists)
          => /\ query'.view.exists
             /\ query'.view.request_id = store[query.rid].request_id
             /\ query'.view.status = store[query.rid].status
             /\ query'.view.current_step = store[query.rid].current_step
             /\ query'.view.progress = store[query.rid].progress
             /\ query'.view.error_message = store[query.rid].error_message
             /\ query'.view.github_issue_number = store[query.rid].github_issue_number
             /\ query'.view.github_issue_url = store[query.rid].github_issue_url]_vars

\* a finished query for a cached request whose record the classifier has moved on
C9_Witness ==
    /\ query.pc = "done"
    /\ query.cached
    /\ active_requests[query.rid].exists
    /\ active_requests[query.rid].status = "completed"
    /\ query.view.exists
    /\ query.view.status = TRIAGED
    /\ Len(query.view.progress) = 1

\* the views of request r in the list get_all_active_requests built
ViewsOf(r) == {i \in 1..Len(lister.result) : lister.result[i].request_id = r}

\* C10: when get_all_active_requests ends, its list holds exactly one view for every
\* request that was in the cache from the start of the call to its end, whatever
\* submit calls ran meanwhile.
C10_OneViewPerCached ==
    lister.pc = "done" =>
        \A r \in lister.begin : active_requests[r].exists => Cardinality(ViewsOf(r)) = 1


\* stage s takes the head of the queue of key k on its topic
Takes(s, k) ==
    /\ stage[s].pc = "poll"
    /\ topics[InTopic(s)][k] # <<>>
    /\ topics'[InTopic(s)][k] = Tail(topics[InTopic(s)][k])

\* everything but the stage's own queue and the log is as it was, and the loop polls
Dropped(s) ==
    /\ store' = store
    /\ sent' = sent
    /\ active_requests' = active_requests
    /\ \A t \in Topics \ {InTopic(s)} : topics'[t] = topics[t]
    /\ stage'[s] = StageIdle

\* C11: when a stage takes a message that lacks request_id or another field its
\* handler requires, no store record is created or changed, nothing is published to
\* any other topic, no status event is emitted, and the stage's loop polls again,
\* ready for the next message.
C11_MalformedDropped ==
    [][\A s \in Stages, k \in Req :
          (Takes(s, k) /\ Decodes(Head(topics[InTopic(s)][k]))
              /\ (\/ LacksId(Head(topics[InTopic(s)][k]))
                  \/ \E f \in Required(s) : Lacks(Head(topics[InTopic(s)][k]), f)))
          => Dropped(s)]_vars

\* the sink dropped such a message and then took the valid message of a request
C11_Witness ==
    /\ log = <<"github", "invalid">>
    /\ stage["github"].pc = "api"

OutTopic(s) ==
    CASE s = "triage" -> TRIAGE_TOPIC
      [] s = "ticket" -> TICKET_CREATION_TOPIC
      [] s = "github" -> STATUS_TOPIC

\* stage s is inside handle_error
Failing(s) == stage[s].pc \in {"error_get", "error_set", "error_status"}
FailedEvent(s) == StatusUpdate(stage[s].rid, "failed", AgentName(s), NoMeta)

Newest(q) == q[Len(q)]

\* C13: a stage that hands its output on has its progress entry in the store by then,
\* the output carries the request id of the message it handles, and the stage emits
\* its completion event only when the output has reached the next topic.
C13_PersistPublishComplete ==
    [][\A s \in {"triage", "ticket"} :
          /\ (stage[s].pc = "publish" /\ stage'[s].pc = "complete")
             => /\ stage[s].persisted
                /\ stage'[s].out
                   => Newest(topics'[OutTopic(s)][stage[s].rid]).request_id = stage[s].rid
          /\ (stage[s].pc = "complete" /\ stage'[s].pc # "complete")
             => stage[s].out]_vars

\* C14: send_message answers true only when the broker has taken the message: a call
\* of the submission that got true has its message on the bug-report topic.
C14_TrueMeansDelivered ==
    [][\A r \in Req :
          (sub[r].pc = "sending" /\ sub'[r].pc # "sending" /\ sub'[r].success)
          => /\ topics'[BUG_REPORTS_TOPIC][r] # <<>>
             /\ Newest(topics'[BUG_REPORTS_TOPIC][r]).request_id = r]_vars

\* C16: a store record carries an error message exactly when its status is FAILED.
C16_ErrorIffFailed ==
    \A r \in Req :
        store[r].exists => (store[r].error_message # None <=> store[r].status = FAILED)

\* C17: a store record carries the issue number and url exactly when its status is
\* CREATED.
C17_IssueIffCreated ==
    \A r \in Req :
        store[r].exists
        => ((store[r].github_issue_number # None /\ store[r].github_issue_url # None)
               <=> store[r].status = CREATED)

\* a call of the service's submit_bug_report that has returned None
ReturnedNone(r) == sub[r].pc \in {"refused", "caught", "rejected", "raised"}

\* C18: a call of the service's submit_bug_report made while the service is not
\* running returns None and the coordinator is not invoked: no id is drawn, no cache
\* entry made, nothing published; the coordinator acts only for a call that found the
\* service running. A call in which the coordinator's submit raises returns None
\* and leaves everything else as it was.
C18_SubmitGuarded ==
    [][\A r \in Req :
          /\ (sub[r].pc \in {"new", "refused", "caught"} /\ sub'[r].pc # sub[r].pc
                  /\ ~service.running)
             => /\ sub'[r].pc = "refused"
                /\ ReturnedNone(r)'
                /\ UNCHANGED <<nextId, active_requests, topics, sent, store>>
          /\ (sub'[r].pc = "checked" /\ sub[r].pc # "checked") => service.running
          /\ (sub'[r].pc \in {"sending", "raised"} /\ sub[r].pc \notin {"sending", "raised"})
             => sub[r].pc = "checked"
          /\ (sub[r].pc = "checked" /\ sub'[r].pc = "caught")
             => /\ ReturnedNone(r)'
                /\ UNCHANGED <<nextId, active_requests, topics, sent, store>>]_vars

\* one call went through while the service ran; after the stop the next call was
\* refused
C18_Witness ==
    /\ service.pc = "stopped"
    /\ \E r \in Req : sub[r].pc = "returned" /\ active_requests[r].exists
    /\ sub[nextId].pc = "refused"
    /\ ~active_requests[nextId].exists

\* C19: when stop_service has ended, by returning or by raising, running is False
\* and stop_consuming was called on every consumer, stop_monitoring on the
\* coordinator and cleanup on every agent.
C19_StopReachesAll ==
    service.pc \in {"stopped", "stop_raised"}
    => /\ ~service.running
       /\ service.stopped = ComponentSet
       /\ service.monitor_stopped
       /\ service.cleaned = ComponentSet

\* a status event that reports the end of a request: a failure, or the sink's
\* completion, which follows the CREATED write
ReportsTerminal(m) ==
    \/ m.status = "failed"
    \/ m.status = "completed" /\ m.agent = "GitHubAPIAgent"

\* C20: the Coordinator schedules the eviction of a cache entry only while it handles
\* a status event that reports a terminal state; the start and completion events of
\* the intermediate stages schedule nothing.
C20_EvictionOnlyOnTerminal ==
    [][\A r \in Req :
          (timers[r] = None /\ timers'[r] # None)
          => coord.msg.request_id = r /\ ReportsTerminal(coord.msg)]_vars

\* a cache entry as submit_bug_report makes it
WellFormed(entry) ==
    /\ entry.bug_report_id \in BugIds
    /\ entry.status # ""
    /\ entry.age_created >= entry.age_updated

\* C21: whatever the interleaving of submit, status consumer, Timer and monitor, an
\* id enters the cache only by its own submit call, so an entry that was evicted is
\* never present again, whether or not a status update raced with the eviction; and
\* every entry present carries bug_report_id, status, created_at and last_updated.
C21_EvictedStaysOut ==
    [][\A r \in Req :
          /\ (~active_requests[r].exists /\ active_requests'[r].exists)
             => r = nextId /\ nextId' = r + 1
          /\ active_requests'[r].exists => WellFormed(active_requests'[r])]_vars

\* the status consumer found the entry, the entry was evicted, and the update then
\* raised KeyError: the request, whose message went out, is not in the cache
C21_Witness ==
    /\ log = <<"coordinator", "KeyError">>
    /\ \E r \in Req : r < nextId /\ sub[r].success /\ ~active_requests[r].exists

\* the fields of a store record that updates write
RecordFields ==
    {"status", "current_step", "progress", "error_message", "github_issue_number",
     "github_issue_url"}

\* C22: a store update by a stage is one read-modify-write: whatever the update
\* writes back unchanged from its read is what the record held just before the
\* write, so that nothing another thread wrote in between is lost or reverted.
C22_UpdateKeepsOthers ==
    [][\A s \in Stages :
          (stage[s].snap.exists /\ stage'[s] # stage[s]
              /\ store[stage[s].rid].exists /\ store'[stage[s].rid].exists)
          => \A f \in RecordFields :
                 store'[stage[s].rid][f] = stage[s].snap[f]
                 => store[stage[s].rid][f] = stage[s].snap[f]]_vars

\* the cache entry holds a terminal status: a failure, or the completion reported by
\* the sink or by the Coordinator's final notification
CachedTerminal(entry) ==
    \/ entry.status = "failed"
    \/ entry.status = "completed" /\ entry.last_agent \in {"GitHubAPIAgent", "CoordinatorAgent"}

\* C23: a cache entry that holds a terminal status keeps a terminal status for as
\* long as it is in the cache, whatever status events arrive later.
C23_CachedTerminalKept ==
    [][\A r \in Req :
          (active_requests[r].exists /\ CachedTerminal(active_requests[r])
              /\ active_requests'[r].exists)
          => CachedTerminal(active_requests'[r])]_vars

\* C24: a relay stage whose progress write did not reach the store (the store did not
\* answer, or held no record) fails closed: its next step enters handle_error, and
\* nothing goes to the next topic.
C24_FailsClosed ==
    [][\A s \in {"triage", "ticket"} :
          (stage[s].pc = "publish" /\ ~stage[s].persisted /\ stage'[s] # stage[s])
          => /\ stage'[s].pc = "error_get"
             /\ topics'[OutTopic(s)] = topics[OutTopic(s)]]_vars

\* C25: a message that send_message reported as sent stays on its topic until the
\* subscribed consumer hands it to its handler, and the messages of one key are
\* handed over in the order they were published: a queue changes only by a message
\* added at its end or by its head going to the handler.
C25_SentIsDelivered ==
    [][\A s \in Stages, k \in Req :
          topics'[InTopic(s)][k] # topics[InTopic(s)][k]
          => \/ /\ topics'[InTopic(s)][k] # <<>>
                /\ topics[InTopic(s)][k] =
                       SubSeq(topics'[InTopic(s)][k], 1, Len(topics'[InTopic(s)][k]) - 1)
             \/ /\ Takes(s, k)
                /\ stage'[s].rid = Head(topics[InTopic(s)][k]).request_id]_vars

\* the steps entered in a progress log
Steps(progress) == {progress[i] : i \in 1..Len(progress)}

\* C26: the progress log of a store record only grows: as long as the record is in
\* the store, every step it holds is still there after any operation.
C26_ProgressOnlyGrows ==
    [][\A r \in Req :
          (store[r].exists /\ store'[r].exists)
          => Steps(store[r].progress) \subseteq Steps(store'[r].progress)]_vars

\* the monitor is in the loop over the timed-out ids its scan found
HandlingTimeouts(m) == m.pc \in {"handle", "timeout_set", "timeout_status"}

\* C27: once the scan of a sweep has found its timed-out ids, the sweep works through
\* all of them whatever the store and the broker do: it is not abandoned, it moves on
\* to the cleanup only when the list is used up, an id leaves the list only when it is
\* out of the cache, and its timeout event is on the status topic when the broker
\* takes it.
C27_SweepGoesOn ==
    [][(HandlingTimeouts(mon) /\ mon' # mon)
          => /\ HandlingTimeouts(mon') \/ mon'.pc = "cleanup"
             /\ mon'.pc = "cleanup" => mon.timeout_requests = <<>>
             /\ HandlingTimeouts(mon')
                => \/ mon'.timeout_requests = mon.timeout_requests
                   \/ /\ mon.timeout_requests # <<>>
                      /\ mon'.timeout_requests = Tail(mon.timeout_requests)
                      /\ ~active_requests'[Head(mon.timeout_requests)].exists
             /\ (mon.pc = "timeout_status" /\ kafka = "ok")
                => TimeoutEvent(Head(mon.timeout_requests)) \in sent']_vars

\* one sweep found two timed-out requests; set_error failed for the first, whose
\* record is in the store and not FAILED, and both were force-failed and evicted
C27_Witness ==
    /\ mon.pc = "handle"
    /\ mon.timeout_requests = <<>>
    /\ \E r, q \in mon.stale :
           /\ r < q
           /\ r \in mon.unsaved
           /\ store[r].exists /\ store[r].status # FAILED
           /\ TimeoutEvent(r) \in sent /\ TimeoutEvent(q) \in sent
           /\ ~active_requests[r].exists /\ ~active_requests[q].exists

C29_SweepRemovesOld ==
    [][SweepEnds => \A r \in Req :
                        active_requests'[r].exists
                        => active_requests'[r].age_created <= CeilingSeconds]_vars

\* the status consumer takes the next event of key k
CoordTakes(k) ==
    /\ coord.pc = "poll"
    /\ topics[STATUS_TOPIC][k] # <<>>
    /\ topics'[STATUS_TOPIC][k] = Tail(topics[STATUS_TOPIC][k])

\* the cache, the Timers and the status events are as they were
NothingDone ==
    /\ active_requests' = active_requests
    /\ timers' = timers
    /\ sent' = sent
    /\ finals' = finals

\* C30: a status event for a request that is not in the cache changes nothing: taking
\* it leaves the cache, the Timers and the status events as they were, and so does
\* the completion handling entered for it, which also publishes nothing.
C30_UnknownIsNoOp ==
    [][/\ \A k \in Req :
             (CoordTakes(k) /\ Decodes(Head(topics[STATUS_TOPIC][k]))
                 /\ ~LacksId(Head(topics[STATUS_TOPIC][k]))
                 /\ ~active_requests[Head(topics[STATUS_TOPIC][k]).request_id].exists)
             => NothingDone
       /\ (coord.pc = "completion" /\ coord' # coord
              /\ ~active_requests[coord.msg.request_id].exists)
          => NothingDone /\ topics' = topics]_vars

\* the monitor's timeout event for a request, published as the entry was popped, has
\* been consumed and its completion handling is over: the request is out of the cache
\* and no Timer runs for it
C30_Witness ==
    \E r \in Req :
        /\ TimeoutEvent(r) \in sent
        /\ topics[STATUS_TOPIC][r] = <<>>
        /\ coord.pc = "poll"
        /\ ~active_requests[r].exists
        /\ timers[r] = None

\* stage s is left holding a record it has just read for the write of an update
ReadsRecord(s) == stage'[s].snap.exists /\ ~stage[s].snap.exists

\* C31: an update of a request that has no store record writes nothing and returns
\* False: a stage or the monitor goes on to the write of an update only when its read
\* found the record, a record comes into the store only by create_request_state or by
\* the write of an update whose read found it, and update_progress is recorded as
\* done only after such a write.
C31_AbsentNotUpdated ==
    [][/\ \A s \in Stages :
             /\ ReadsRecord(s) => GetRequestState(stage'[s].rid).exists /\ store' = store
             /\ (stage'[s].persisted /\ ~stage[s].persisted) => stage[s].snap.exists
       /\ (mon'.snap.exists /\ ~mon.snap.exists)
          => GetRequestState(Head(mon.timeout_requests)).exists /\ store' = store
       /\ \A r \in Req :
             (~store[r].exists /\ store'[r].exists)
             => \/ Handling("triage", "poll") /\ stage'["triage"].rid = r
                \/ \E s \in Stages : stage[s].snap.exists /\ stage[s].rid = r
                \/ mon.snap.exists /\ Head(mon.timeout_requests) = r]_vars

\* set_error was called for a request whose record was never created (the store was
\* down then and is up again): the stage is past the update and there is no record
C31_Witness ==
    /\ Handling("triage", "error_status")
    /\ redis = "ok"
    /\ ~store[stage["triage"].rid].exists
    /\ ~stage["triage"].snap.exists

\* the head of the queue of request r on topic t is a message for r and is taken
TookFrom(t, r) ==
    /\ topics[t][r] # <<>>
    /\ Head(topics[t][r]).request_id = r
    /\ topics'[t][r] = Tail(topics[t][r])

\* C32: a stage starts on a request only by taking a message for it from its own
\* topic, and a message for a request is added to the triage topic only by the
\* classifier handling that request and to the ticket topic only by the formatter
\* handling it; so a request reaches a later topic only after the preceding one.
C32_StagesInOrder ==
    [][\A r \in Req :
          /\ Len(topics'[TRIAGE_TOPIC][r]) > Len(topics[TRIAGE_TOPIC][r])
             => Handling("triage", "publish") /\ stage["triage"].rid = r
          /\ Len(topics'[TICKET_CREATION_TOPIC][r]) > Len(topics[TICKET_CREATION_TOPIC][r])
             => Handling("ticket", "publish") /\ stage["ticket"].rid = r
          /\ (stage'["triage"].rid = r /\ stage["triage"].rid # r)
             => TookFrom(BUG_REPORTS_TOPIC, r)
          /\ (stage'["ticket"].rid = r /\ stage["ticket"].rid # r)
             => TookFrom(TRIAGE_TOPIC, r)
          /\ (stage'["github"].rid = r /\ stage["github"].rid # r)
             => TookFrom(TICKET_CREATION_TOPIC, r)]_vars

\* the sink has taken the ticket request of a request
C32_Witness == stage["github"].rid \in Req /\ ~Handling("github", "poll")

\* C33: once stop_consuming was called on a consumer, its loop hands no further
\* message to the handler; once stop_monitoring was called, the monitor thread starts
\* no further sweep.
C33_StopEndsLoops ==
    [][/\ \A c \in ComponentSet :
             c \in service.stopped
             => ~(service'.loop[c] = "handle" /\ service.loop[c] # "handle")
       /\ service.monitor_stopped
          => ~(service'.loops[1] = "sweep" /\ service.loops[1] # "sweep")]_vars

\* C40: whatever the calls of start_monitoring and stop_monitoring, no two monitor
\* threads are in a sweep at the same time.
C40_OneMonitorLoop ==
    Cardinality({i \in 1..MaxLoops : service.loops[i] = "sweep"}) <= 1

\* C34: after submit_bug_report returned None because the initial message could not be
\* sent, the cache holds no entry for the id it had drawn, and the monitor publishes
\* no 'failed' event for that id.
C34_RejectedNotCached ==
    \A r \in Req :
        sub[r].pc = "rejected" => ~active_requests[r].exists /\ TimeoutEvent(r) \notin sent

\* C35: for each request the coordinator publishes its final success notification at
\* most once.
C35_OneFinalNotification == \A r \in Req : finals[r] <= 1

\* C36: when the monitor force-fails a request, by the FAILED write to its record or
\* by the timeout event, the cache entry's last_updated is still older than the
\* threshold.
C36_ForceFailStillStale ==
    [][\A r \in Req :
          (/\ mon.pc \in {"timeout_set", "timeout_status"}
           /\ mon' # mon
           /\ Head(mon.timeout_requests) = r
           /\ active_requests[r].exists)
          => active_requests[r].age_updated > TIMEOUT_SECONDS]_vars

\* C37: a scan under way is never abandoned: each of its steps takes it to the next
\* cache entry or, at the end of the cache, to the handling of what it found.
C37_ScanNotAbandoned ==
    [][(mon.pc = "scan" /\ mon' # mon) => mon'.pc \in {"scan", "handle"}]_vars

\* C38: the coordinator's 'submitted' event is the first status event of its request
\* on the status topic, and a cache entry that has left 'submitted' does not go back
\* to it.
C38_SubmittedComesFirst ==
    [][\A r \in Req :
          /\ (SubmittedEvent(r) \notin sent /\ SubmittedEvent(r) \in sent')
             => \A e \in sent : e.request_id # r
          /\ (active_requests[r].exists /\ active_requests[r].status # "submitted"
                  /\ active_requests'[r].exists)
             => active_requests'[r].status # "submitted"]_vars

\* C39: when the sink publishes its 'completed' event with the issue number and url,
\* the request's store record exists, is CREATED and carries that number and url.
C39_AnnouncedIsCreated ==
    [][(Handling("github", "final") /\ stage'["github"] # stage["github"])
       => /\ store[stage["github"].rid].exists
          /\ store[stage["github"].rid].status = CREATED
          /\ store[stage["github"].rid].github_issue_number = Some(stage["github"].num)
          /\ store[stage["github"].rid].github_issue_url
                 = Some(IssueUrl(stage["github"].num))]_vars

====
